---- MODULE Spec2Model ----
(***************************************************************************)
(* A model of link_checker's crawl engine (crawler.ts), of the bounded     *)
(* task scheduler it runs on (TaskQueue, task_queue.ts) and of the         *)
(* resource identity function (shared.ts).                                 *)
(*                                                                         *)
(* JavaScript runs one job at a time: a synchronous block (a call, or the  *)
(* continuation of an await) runs to its next await without interruption.  *)
(* Every action below is one such block.  Promises are modelled by their   *)
(* state: for each handler invocation the promise P returned by the        *)
(* handler, and the promise P' = P.finally(...) that TaskQueue keeps in    *)
(* `running`.                                                              *)
(***************************************************************************)
EXTENDS Integers, Sequences, FiniteSets, TLC

\* ------------------------------------------------------------------ bounds
\* options.maxConcurrency ranges over 0..MaxConcurrencyOpt
MaxConcurrencyOpt == 2
\* options.depth ranges over -1..MaxDepthOpt and "absent"
MaxDepthOpt == 2
\* generic scheduler runs: the caller and the handlers' continuations call
\* enqueue() while fewer than MaxEnqueues calls have been made
MaxEnqueues == 3
\* crawl runs: at most MaxFailures calls of the collaborators and the
\* parser fail or, for a content type lookup over http, find no
\* content-type header
MaxFailures == 1

\* maxDepth when options.depth is absent
Infinity == 1000

\* ------------------------------------------------------- optional values
None == << >>
Some(x) == << x >>

\* ---------------------------------------------------------------- strings
\* A string is a sequence of tokens; String.prototype.startsWith
StartsWith(s, p) == Len(p) <= Len(s) /\ SubSeq(s, 1, Len(p)) = p

\* ------------------------------------------------------------------- URLs
\* A URL object: protocol, everything between the protocol and the
\* fragment, and the fragment (hasFrag: a "#" is present; frag: what follows)
MkURL(protocol, body) ==
    [protocol |-> protocol, body |-> body, hasFrag |-> FALSE, frag |-> << >>]

WithFrag(u, f) == [u EXCEPT !.hasFrag = TRUE, !.frag = f]

\* url.href
Href(u) == << u.protocol >> \o u.body \o (IF u.hasFrag THEN << "#" >> \o u.frag ELSE << >>)

\* url.hash: "" when the fragment is absent or empty, else "#" + fragment
Hash(u) == IF u.hasFrag /\ u.frag # << >> THEN << "#" >> \o u.frag ELSE << >>

getResourceIdentityFromURL(url) ==
    IF Hash(url) # << >>
    THEN [url EXCEPT !.hasFrag = FALSE, !.frag = << >>]
    ELSE url

\* lastIndexOf("/") over a string, 0 when there is none
RECURSIVE LastSlash(_, _)
LastSlash(s, i) ==
    IF i = 0 THEN 0 ELSE IF s[i] = "/" THEN i ELSE LastSlash(s, i - 1)

getBaseFromURL(url) ==
    LET urlString == Href(url)
    IN SubSeq(urlString, 1, LastSlash(urlString, Len(urlString)))

allowedProtocols == { "file:", "http:", "https:" }

\* ------------------------------------------ raw references and new URL()
\* The references a parser returns, by shape: an absolute reference, a
\* relative file name (with or without fragment), a bare "#fragment", and a
\* string new URL() rejects.
NoURL == MkURL("", << >>)
AbsRef(u) == [kind |-> "abs", url |-> u, name |-> << >>, hasFrag |-> FALSE, frag |-> << >>]
RelRef(name) == [kind |-> "rel", url |-> NoURL, name |-> name, hasFrag |-> FALSE, frag |-> << >>]
RelFragRef(name, f) == [kind |-> "rel", url |-> NoURL, name |-> name, hasFrag |-> TRUE, frag |-> f]
FragRef(f) == [kind |-> "frag", url |-> NoURL, name |-> << >>, hasFrag |-> TRUE, frag |-> f]
BadRef == [kind |-> "bad", url |-> NoURL, name |-> << >>, hasFrag |-> FALSE, frag |-> << >>]

\* new URL(href, base) throws a TypeError on these
NewURLThrows(href) == href.kind = "bad"

\* new URL(href, base) otherwise
NewURL(href, base) ==
    CASE href.kind = "abs" -> href.url
      [] href.kind = "frag" -> [base EXCEPT !.hasFrag = TRUE, !.frag = href.frag]
      [] OTHER ->
           [base EXCEPT !.body = SubSeq(base.body, 1, LastSlash(base.body, Len(base.body))) \o href.name,
                        !.hasFrag = href.hasFrag,
                        !.frag = href.frag]

\* ------------------------------------------------------------- the site
\* The collaborators' answers: a small site with mutual links, a self
\* link, links that differ only in the fragment, a resource without a
\* parser, two external pages, a mailto: link, a link that occurs twice,
\* links to anchors that exist (o#a, #a, i#t) and that do not (o#b, y#f)
\* and a reference new URL() rejects.  The stylesheet's name starts with
\* index's ("i", "ic").  The second external page is two links away from index
\* (index -> ext -> ext2) and one link away from other, and it links back
\* to the first one with an empty fragment ("x#").
IndexURL == MkURL("file:", << "/", "s", "/", "i" >>)
OtherURL == MkURL("file:", << "/", "s", "/", "o" >>)
StyleURL == MkURL("file:", << "/", "s", "/", "i", "c" >>)
ExtURL == MkURL("http:", << "/", "x" >>)
Ext2URL == MkURL("http:", << "/", "y" >>)
MailURL == MkURL("mailto:", << "m" >>)

htmlType == << "text/html" >>
htmlTypeCharset == << "text/html", ";", "charset=utf-8" >>
otherType == << "application/octet-stream" >>

\* The collaborators read the resource a URL names: a trailing "#" (an
\* empty fragment, which url.href keeps) does not change their answer
PageOf(href) ==
    IF href # << >> /\ href[Len(href)] = "#" THEN SubSeq(href, 1, Len(href) - 1) ELSE href

\* What defaultGetHTTPContentTypeAsync resolves to when the response has
\* no content-type header: the empty string
noContentType == << >>

\* What getContentTypeAsync resolves to when it succeeds
SiteContentType(href) ==
    CASE PageOf(href) = Href(IndexURL) -> htmlType
      [] PageOf(href) = Href(OtherURL) -> htmlTypeCharset
      [] PageOf(href) = Href(ExtURL) -> htmlType
      [] PageOf(href) = Href(Ext2URL) -> htmlType
      [] OTHER -> otherType

\* What the parser returns for the text readTextAsync resolves to
SiteHrefs(href) ==
    CASE PageOf(href) = Href(IndexURL) ->
           << RelFragRef(<< "o" >>, << "a" >>), RelRef(<< "i", "c" >>), AbsRef(ExtURL),
              AbsRef(MailURL), RelFragRef(<< "o" >>, << "b" >>),
              RelFragRef(<< "o" >>, << "b" >>) >>
      [] PageOf(href) = Href(OtherURL) -> << RelRef(<< "i" >>), FragRef(<< "a" >>), AbsRef(WithFrag(Ext2URL, << "f" >>)) >>
      [] PageOf(href) = Href(ExtURL) -> << AbsRef(WithFrag(IndexURL, << "t" >>)), RelRef(<< "y" >>) >>
      [] PageOf(href) = Href(Ext2URL) -> << RelFragRef(<< "x" >>, << >>), BadRef, RelRef(<< "z" >>) >>
      [] OTHER -> << >>

SiteIds(href) ==
    CASE PageOf(href) = Href(IndexURL) -> { << "t" >> }
      [] PageOf(href) = Href(OtherURL) -> { << "a" >> }
      [] OTHER -> { }

\* handlers.contentTypeParsers: the registered content types
contentTypeParsers == { htmlType }

\* contentTypeShortPattern = /^([^;]*?)(;.*)?$/, group 1
RECURSIVE FirstSemicolon(_, _)
FirstSemicolon(s, i) ==
    IF i > Len(s) THEN 0 ELSE IF s[i] = ";" THEN i ELSE FirstSemicolon(s, i + 1)

\* A lookup by the whole content type, parameters included
contentTypeShort_whole(contentType) == contentType

contentTypeShort(contentType) ==
    LET k == FirstSemicolon(contentType, 1)
    IN IF k = 0 THEN contentType ELSE SubSeq(contentType, 1, k - 1)

\* ------------------------------------------------------------------ state
VARIABLES
    taskQueue,    \* the TaskQueue object: handler, maxConcurrency, queued, running
    tasks,        \* the handler invocations, in the order they were started
    enq,          \* the items passed to enqueue(), in call order
    drainPc,      \* drain(): "idle" (not called), "awaiting" (in Promise.race), "returned"
    raceSet,      \* the promises of `running` the pending Promise.race was given
    handled,      \* the promises some Promise.race has attached a reaction to
    enqAtDrain,   \* how many enqueue() calls had been made when drain() was called (-1 before)
    uncaught,     \* a promise was rejected with no reaction attached: the runtime ends the program
    script,       \* generic handler: the item it enqueues before its first await (0: none)
    context,      \* the crawl's Context: options, resources (with insertion order), parseErrors
    options,      \* the CrawlOptions crawlAsync is given
    urls,         \* the entry points crawlAsync is given
    crawlPc,      \* crawlAsync: "init", "draining", "done" (returned), "threw"
    collection,   \* what crawlAsync returned
    thrown,       \* what crawlAsync threw
    brokenLinks,  \* what checkLinksAsync returned, once it has
    writes        \* the calls of handlers.writeTextAsync: [url, content]

vars == << taskQueue, tasks, enq, drainPc, raceSet, handled, enqAtDrain, uncaught, script,
           context, options, urls, crawlPc, collection, thrown, brokenLinks, writes >>

queueVars == << taskQueue, tasks, enq, drainPc, raceSet, handled, enqAtDrain, uncaught >>

\* --------------------------------------------------------------- TaskQueue
\* The operators below take and return the mutable heap a synchronous
\* block works on: m = [tq, tasks, enq, ctx, script].
Heap == [tq |-> taskQueue, tasks |-> tasks, enq |-> enq, ctx |-> context, script |-> script]

\* The element of a one-element set.  An operator that reads its heap
\* argument more than once is written TheOne({ body(m) : m \in { m0 } }),
\* so that the argument (the result of the calls before it) is computed
\* once.
TheOne(S) == CHOOSE r \in S : TRUE

Commit(m) ==
    /\ taskQueue' = m.tq
    /\ tasks' = m.tasks
    /\ enq' = m.enq
    /\ context' = m.ctx

\* new TaskQueue(handler, maxConcurrency): the object, when the constructor does not throw
NewTaskQueue(h, maxConcurrency) ==
    [handler |-> h, maxConcurrency |-> maxConcurrency, queued |-> << >>, running |-> << >>]

\* A constructor that accepts a maxConcurrency of 0
TaskQueueThrows_negativeOnly(maxConcurrency) == maxConcurrency < 0

\* the constructor throws TaskQueueError
TaskQueueThrows(maxConcurrency) == maxConcurrency <= 0

\* A handler invocation: the item, where its body is, the state of the
\* promise P it returned and of P' = P.finally(...), and its calls of the
\* access collaborator and of the parser: ct for getContentTypeAsync, rt
\* for readTextAsync, pr for parse and the loop over its hrefs ("none": not
\* called, "called": pending, else how it ended; pr is "TypeError" when
\* new URL() threw in the loop).
NewTask(item, pc, p, ct) ==
    [item |-> item, pc |-> pc, p |-> p, fin |-> "pending", ct |-> ct, rt |-> "none", pr |-> "none"]

RECURSIVE handler(_, _), tryPop(_), enqueue(_, _)

\* this.handler(task), up to the handler's first await.
\*   processWorkItemAsync: the two asserts, then the call of
\*     handlers.getContentTypeAsync(source);
\*   the generic handler: an enqueue() of script[item], if any, before its
\*     first await.
handler(m0, item) ==
    LET body(m) ==
          IF m.tq.handler = "processWorkItemAsync"
          THEN IF item \in DOMAIN m.ctx.resources
               THEN [m EXCEPT !.tasks = Append(@, NewTask(item, "getContentTypeAsync", "pending", "called"))]
               ELSE [m EXCEPT !.tasks = Append(@, NewTask(item, "end", "rejected", "none"))]
          ELSE IF m.script[item] # 0
               THEN enqueue([m EXCEPT !.tasks = Append(@, NewTask(item, "await1", "pending", "none"))],
                            m.script[item])
               ELSE [m EXCEPT !.tasks = Append(@, NewTask(item, "await1", "pending", "none"))]
    IN TheOne({ body(m) : m \in { m0 } })

\* A tryPop that takes the newest pending item: this.queued.pop()
StartTask_lifo(m0) ==
    LET push(m2) == [m2 EXCEPT !.tq.running = Append(@, Len(m0.tasks) + 1)]
        last == Len(m0.tq.queued)
    IN TheOne({ push(m2) : m2 \in { handler([m0 EXCEPT !.tq.queued = SubSeq(@, 1, last - 1)],
                                            m0.tq.queued[last]) } })

\* the rest of tryPop once `task` is shifted off `queued`: the promise of
\* this.handler(task) is pushed to `running` after the handler has returned
StartTask(m0) ==
    LET push(m2) == [m2 EXCEPT !.tq.running = Append(@, Len(m0.tasks) + 1)]
    IN TheOne({ push(m2) : m2 \in { handler([m0 EXCEPT !.tq.queued = Tail(@)], Head(m0.tq.queued)) } })

\* tryPop(): [m: the heap after it, ok: what it returned]
tryPop(m0) ==
    LET body(m) ==
          IF Len(m.tq.running) < m.tq.maxConcurrency /\ m.tq.queued # << >>
          THEN [m |-> StartTask(m), ok |-> TRUE]
          ELSE [m |-> m, ok |-> FALSE]
    IN TheOne({ body(m) : m \in { m0 } })

\* An enqueue that drops the item when no slot is free
enqueue_dropsWhenBusy(m0, task) ==
    LET body(m) ==
          IF Len(m.tq.running) < m.tq.maxConcurrency
          THEN tryPop([m EXCEPT !.tq.queued = Append(@, task), !.enq = Append(@, task)]).m
          ELSE [m EXCEPT !.enq = Append(@, task)]
    IN TheOne({ body(m) : m \in { m0 } })

\* An enqueue that puts the item at the front: this.queued.unshift(task)
enqueue_atFront(m, task) ==
    tryPop([m EXCEPT !.tq.queued = << task >> \o @, !.enq = Append(@, task)]).m

enqueue(m, task) ==
    tryPop([m EXCEPT !.tq.queued = Append(@, task), !.enq = Append(@, task)]).m

\* running.splice(running.indexOf(promise), 1): indexOf is -1 when the
\* promise is not there, and splice(-1, 1) removes the last element
IndexOf(s, x) == IF \E i \in 1..Len(s) : s[i] = x
                 THEN CHOOSE i \in 1..Len(s) : s[i] = x /\ \A j \in 1..(i - 1) : s[j] # x
                 ELSE 0

Splice1(s, i) ==
    IF s = << >> THEN s
    ELSE LET k == IF i = 0 THEN Len(s) ELSE i
         IN SubSeq(s, 1, k - 1) \o SubSeq(s, k + 1, Len(s))

RECURSIVE drainLoop(_)

\* A drain that waits for the queue only: while (this.queued.length > 0)
drainLoop_queueOnly(m0) ==
    LET step(r) == IF r.ok THEN drainLoop(r.m) ELSE [m |-> r.m, pc |-> "awaiting"]
        body(m) ==
          IF Len(m.tq.queued) > 0
          THEN TheOne({ step(r) : r \in { tryPop(m) } })
          ELSE [m |-> m, pc |-> "returned"]
    IN TheOne({ body(m) : m \in { m0 } })

\* drain()'s loop from its head to its next await or its return:
\* [m: the heap, pc: "awaiting" or "returned"]
drainLoop(m0) ==
    LET step(r) == IF r.ok THEN drainLoop(r.m) ELSE [m |-> r.m, pc |-> "awaiting"]
        body(m) ==
          IF Len(m.tq.queued) > 0 \/ Len(m.tq.running) > 0
          THEN TheOne({ step(r) : r \in { tryPop(m) } })
          ELSE [m |-> m, pc |-> "returned"]
    IN TheOne({ body(m) : m \in { m0 } })

\* ------------------------------------------------------------ crawl engine
\* A new record of context.resources: contentType, links and ids unset
NewResource(url, internal, depth) ==
    [url |-> url, depth |-> depth, internal |-> internal,
     contentType |-> None, links |-> None, ids |-> None]

\* An enqueue of a key that is given no record
InsertAndEnqueue_enqueueOnly(m, url, internal, depth) ==
    enqueue(m, Href(url))

\* resources.set(href, { internal, url, depth }); context.taskQueue.enqueue({ href })
InsertAndEnqueue(m, url, internal, depth) ==
    enqueue([m EXCEPT !.ctx.resources = (Href(url) :> NewResource(url, internal, depth)) @@ @,
                      !.ctx.order = Append(@, Href(url))],
            Href(url))

\* An enqueueURLIfNeeded without the resources.has(href) test
enqueueURLIfNeeded_noDedup(m0, urlWithFragment, depth) ==
    LET url == getResourceIdentityFromURL(urlWithFragment)
        body(m) ==
          IF depth <= m.ctx.maxDepth
          THEN LET internal == StartsWith(Href(url), m.ctx.base)
                   shouldCheck == internal \/ m.ctx.checkExternalLinks
               IN IF shouldCheck
                  THEN InsertAndEnqueue(m, url, internal, depth)
                  ELSE m
          ELSE m
    IN TheOne({ body(m) : m \in { m0 } })

\* An enqueueURLIfNeeded without the depth <= context.maxDepth test
enqueueURLIfNeeded_noDepthLimit(m0, urlWithFragment, depth) ==
    LET url == getResourceIdentityFromURL(urlWithFragment)
        body(m) ==
          LET internal == StartsWith(Href(url), m.ctx.base)
              shouldCheck == internal \/ m.ctx.checkExternalLinks
          IN IF shouldCheck /\ Href(url) \notin DOMAIN m.ctx.resources
             THEN InsertAndEnqueue(m, url, internal, depth)
             ELSE m
    IN TheOne({ body(m) : m \in { m0 } })

\* An enqueueURLIfNeeded that lowers the depth of a record found again by
\* a shorter path
enqueueURLIfNeeded_updatesDepth(m0, urlWithFragment, depth) ==
    LET url == getResourceIdentityFromURL(urlWithFragment)
        body(m) ==
          IF depth <= m.ctx.maxDepth
          THEN LET internal == StartsWith(Href(url), m.ctx.base)
                   shouldCheck == internal \/ m.ctx.checkExternalLinks
               IN IF shouldCheck /\ Href(url) \notin DOMAIN m.ctx.resources
                  THEN InsertAndEnqueue(m, url, internal, depth)
                  ELSE IF shouldCheck /\ depth < m.ctx.resources[Href(url)].depth
                  THEN [m EXCEPT !.ctx.resources[Href(url)].depth = depth]
                  ELSE m
          ELSE m
    IN TheOne({ body(m) : m \in { m0 } })

\* An enqueueURLIfNeeded that takes external URLs whatever the options
enqueueURLIfNeeded_alwaysChecks(m0, urlWithFragment, depth) ==
    LET url == getResourceIdentityFromURL(urlWithFragment)
        body(m) ==
          IF depth <= m.ctx.maxDepth
          THEN LET internal == StartsWith(Href(url), m.ctx.base)
               IN IF Href(url) \notin DOMAIN m.ctx.resources
                  THEN InsertAndEnqueue(m, url, internal, depth)
                  ELSE m
          ELSE m
    IN TheOne({ body(m) : m \in { m0 } })

\* An enqueueURLIfNeeded that sets a fresh record for a key it meets again
enqueueURLIfNeeded_resetsRecord(m0, urlWithFragment, depth) ==
    LET url == getResourceIdentityFromURL(urlWithFragment)
        body(m) ==
          IF depth <= m.ctx.maxDepth
          THEN LET internal == StartsWith(Href(url), m.ctx.base)
                   shouldCheck == internal \/ m.ctx.checkExternalLinks
               IN IF shouldCheck
                  THEN IF Href(url) \notin DOMAIN m.ctx.resources
                       THEN InsertAndEnqueue(m, url, internal, depth)
                       ELSE [m EXCEPT !.ctx.resources[Href(url)] = NewResource(url, internal, depth)]
                  ELSE m
          ELSE m
    IN TheOne({ body(m) : m \in { m0 } })

\* An enqueueURLIfNeeded whose base matches whole path segments only
enqueueURLIfNeeded_segmentAware(m0, urlWithFragment, depth) ==
    LET url == getResourceIdentityFromURL(urlWithFragment)
        href == Href(url)
        body(m) ==
          IF depth <= m.ctx.maxDepth
          THEN LET base == m.ctx.base
                   internal == /\ StartsWith(href, base)
                               /\ \/ Len(href) = Len(base)
                                  \/ base[Len(base)] = "/"
                                  \/ href[Len(base) + 1] = "/"
                   shouldCheck == internal \/ m.ctx.checkExternalLinks
               IN IF shouldCheck /\ href \notin DOMAIN m.ctx.resources
                  THEN InsertAndEnqueue(m, url, internal, depth)
                  ELSE m
          ELSE m
    IN TheOne({ body(m) : m \in { m0 } })

enqueueURLIfNeeded(m0, urlWithFragment, depth) ==
    LET url == getResourceIdentityFromURL(urlWithFragment)
        body(m) ==
          IF depth <= m.ctx.maxDepth
          THEN LET internal == StartsWith(Href(url), m.ctx.base)
                   shouldCheck == internal \/ m.ctx.checkExternalLinks
               IN IF shouldCheck /\ Href(url) \notin DOMAIN m.ctx.resources
                  THEN InsertAndEnqueue(m, url, internal, depth)
                  ELSE m
          ELSE m
    IN TheOne({ body(m) : m \in { m0 } })

RECURSIVE processHrefs_anyProtocol(_, _, _, _), processHrefs_recordsEveryLink(_, _, _, _)

\* A loop over hrefs without the allowedProtocols test
processHrefs_anyProtocol(m0, key, hrefs, i) ==
    LET body(m) ==
          IF i > Len(hrefs)
          THEN [m |-> m, threw |-> FALSE]
          ELSE LET href == hrefs[i]
                   resource == m.ctx.resources[key]
               IN IF NewURLThrows(href)
                  THEN [m |-> m, threw |-> TRUE]
                  ELSE LET url == NewURL(href, resource.url)
                           link == [canonicalURL |-> url, originalHrefString |-> href]
                           m1 == [m EXCEPT !.ctx.resources[key].links = Some(Append(@[1], link))]
                       IN processHrefs_anyProtocol(enqueueURLIfNeeded(m1, url, resource.depth + 1),
                                                   key, hrefs, i + 1)
    IN TheOne({ body(m) : m \in { m0 } })

\* A loop over hrefs that records every link and enqueues those of an
\* allowed protocol
processHrefs_recordsEveryLink(m0, key, hrefs, i) ==
    LET body(m) ==
          IF i > Len(hrefs)
          THEN [m |-> m, threw |-> FALSE]
          ELSE LET href == hrefs[i]
                   resource == m.ctx.resources[key]
               IN IF NewURLThrows(href)
                  THEN [m |-> m, threw |-> TRUE]
                  ELSE LET url == NewURL(href, resource.url)
                           link == [canonicalURL |-> url, originalHrefString |-> href]
                           m1 == [m EXCEPT !.ctx.resources[key].links = Some(Append(@[1], link))]
                       IN IF url.protocol \in allowedProtocols
                          THEN processHrefs_recordsEveryLink(
                                   enqueueURLIfNeeded(m1, url, resource.depth + 1), key, hrefs, i + 1)
                          ELSE processHrefs_recordsEveryLink(m1, key, hrefs, i + 1)
    IN TheOne({ body(m) : m \in { m0 } })

\* processWorkItemAsync, the loop over hrefs from its i-th element:
\* [m: the heap, threw: new URL() threw]
RECURSIVE processHrefs(_, _, _, _)
processHrefs(m0, key, hrefs, i) ==
    LET body(m) ==
          IF i > Len(hrefs)
          THEN [m |-> m, threw |-> FALSE]
          ELSE LET href == hrefs[i]
                   resource == m.ctx.resources[key]
               IN IF NewURLThrows(href)
                  THEN [m |-> m, threw |-> TRUE]
                  ELSE LET url == NewURL(href, resource.url)
                       IN IF url.protocol \in allowedProtocols
                          THEN LET link == [canonicalURL |-> url, originalHrefString |-> href]
                                   m1 == [m EXCEPT !.ctx.resources[key].links = Some(Append(@[1], link))]
                               IN processHrefs(enqueueURLIfNeeded(m1, url, resource.depth + 1),
                                               key, hrefs, i + 1)
                          ELSE processHrefs(m, key, hrefs, i + 1)
    IN TheOne({ body(m) : m \in { m0 } })

\* the handler returns: P is fulfilled
Fulfil(m, id) == [m EXCEPT !.tasks[id].pc = "end", !.tasks[id].p = "fulfilled"]
\* the handler throws: P is rejected
Reject(m, id) == [m EXCEPT !.tasks[id].pc = "end", !.tasks[id].p = "rejected"]

\* A shouldParse that ignores the depth limit
shouldParse_noDepth(m, key, short) ==
    /\ short # << >>
    /\ short \in contentTypeParsers
    /\ (m.ctx.resources[key].internal \/ m.ctx.followExternalLinks)

\* A shouldParse that parses external resources whatever the options
shouldParse_noPolicy(m, key, short) ==
    /\ short # << >>
    /\ short \in contentTypeParsers
    /\ m.ctx.resources[key].depth < m.ctx.maxDepth

\* A shouldParse that does not ask for a registered parser
shouldParse_anyContentType(m, key, short) ==
    /\ short # << >>
    /\ (m.ctx.resources[key].internal \/ m.ctx.followExternalLinks)
    /\ m.ctx.resources[key].depth < m.ctx.maxDepth

\* parse && (resource.internal || context.followExternalLinks) && (resource.depth < context.maxDepth)
\* where parse = contentTypeShort ? handlers.contentTypeParsers[contentTypeShort] : undefined
\* (short is None when the content type lookup failed)
shouldParse(m, key, short) ==
    /\ short # << >>
    /\ short \in contentTypeParsers
    /\ (m.ctx.resources[key].internal \/ m.ctx.followExternalLinks)
    /\ m.ctx.resources[key].depth < m.ctx.maxDepth

\* A processWorkItemAsync that reads the text whatever the content type
\* lookup gave
AfterContentType_alwaysReads(m0, id, short) ==
    [m0 EXCEPT !.tasks[id].pc = "readTextAsync", !.tasks[id].rt = "called"]

\* processWorkItemAsync after the content type is settled (line 123 on):
\* it calls readTextAsync, or returns
AfterContentType(m0, id, short) ==
    LET body(m) ==
          IF shouldParse(m, m.tasks[id].item, short)
          THEN [m EXCEPT !.tasks[id].pc = "readTextAsync", !.tasks[id].rt = "called"]
          ELSE Fulfil(m, id)
    IN TheOne({ body(m) : m \in { m0 } })

\* A catch that rethrows every error, not only the permission error
onGetContentType_rethrowsAll(m, id, outcome) ==
    LET key == m.tasks[id].item
        ct == IF outcome = "NoHeader" THEN noContentType ELSE SiteContentType(key)
    IN IF outcome \in { "ok", "NoHeader" }
       THEN AfterContentType([m EXCEPT !.tasks[id].ct = outcome,
                                       !.ctx.resources[key].contentType = Some(ct)],
                             id, contentTypeShort(ct))
       ELSE Reject([m EXCEPT !.tasks[id].ct = outcome], id)

\* processWorkItemAsync resumed from `await handlers.getContentTypeAsync(source)`
\* with outcome "ok", "NoHeader" (it resolved to the empty string),
\* "NotFound" (any ordinary error) or "PermissionDenied"
onGetContentType(m, id, outcome) ==
    LET key == m.tasks[id].item
        ct == IF outcome = "NoHeader" THEN noContentType ELSE SiteContentType(key)
    IN CASE outcome \in { "ok", "NoHeader" } ->
              AfterContentType([m EXCEPT !.tasks[id].ct = outcome,
                                         !.ctx.resources[key].contentType = Some(ct)],
                               id, contentTypeShort(ct))
         [] outcome = "PermissionDenied" ->
              Reject([m EXCEPT !.tasks[id].ct = outcome], id)
         [] OTHER ->
              AfterContentType([m EXCEPT !.tasks[id].ct = outcome,
                                         !.ctx.resources[key].contentType = None],
                               id, None)

\* A read failure that leaves the content type in place
onReadText_keepsContentType(m, id, outcome) ==
    CASE outcome = "ok" -> [m EXCEPT !.tasks[id].rt = outcome, !.tasks[id].pc = "parse",
                                     !.tasks[id].pr = "called"]
      [] outcome = "PermissionDenied" -> Reject([m EXCEPT !.tasks[id].rt = outcome], id)
      [] OTHER -> Fulfil([m EXCEPT !.tasks[id].rt = outcome], id)

\* processWorkItemAsync resumed from `await handlers.readTextAsync(source)`
onReadText(m, id, outcome) ==
    LET key == m.tasks[id].item
    IN CASE outcome = "ok" -> [m EXCEPT !.tasks[id].rt = outcome, !.tasks[id].pc = "parse",
                                        !.tasks[id].pr = "called"]
         [] outcome = "PermissionDenied" -> Reject([m EXCEPT !.tasks[id].rt = outcome], id)
         [] OTHER -> Fulfil([m EXCEPT !.tasks[id].rt = outcome,
                                      !.ctx.resources[key].contentType = None], id)

\* An outer catch that rethrows every error instead of noting it
onParse_rethrowsAll(m, id, outcome) ==
    LET key == m.tasks[id].item
        finish(r) ==
          IF r.threw
          THEN Reject([r.m EXCEPT !.tasks[id].pr = "TypeError"], id)
          ELSE IF r.m.ctx.recordIds
               THEN Fulfil([r.m EXCEPT !.ctx.resources[key].ids = Some(SiteIds(key)),
                                       !.tasks[id].pr = "ok"], id)
               ELSE Fulfil([r.m EXCEPT !.tasks[id].pr = "ok"], id)
    IN IF outcome = "ok"
       THEN TheOne({ finish(r) : r \in { processHrefs([m EXCEPT !.ctx.resources[key].links = Some(<< >>)],
                                                       key, SiteHrefs(key), 1) } })
       ELSE Reject([m EXCEPT !.tasks[id].pr = outcome], id)

\* A continuation that keeps the parser's ids whatever recordIds is
onParse_alwaysIds(m, id, outcome) ==
    LET key == m.tasks[id].item
        finish(r) ==
          IF r.threw
          THEN Fulfil([r.m EXCEPT !.ctx.parseErrors = @ \cup { key },
                                  !.tasks[id].pr = "TypeError"], id)
          ELSE Fulfil([r.m EXCEPT !.ctx.resources[key].ids = Some(SiteIds(key)),
                                  !.tasks[id].pr = "ok"], id)
    IN IF outcome = "ok"
       THEN TheOne({ finish(r) : r \in { processHrefs([m EXCEPT !.ctx.resources[key].links = Some(<< >>)],
                                                       key, SiteHrefs(key), 1) } })
       ELSE Fulfil([m EXCEPT !.ctx.parseErrors = @ \cup { key },
                             !.tasks[id].pr = outcome], id)

\* An outer catch that drops the links recorded before the error
onParse_dropsLinksOnError(m, id, outcome) ==
    LET key == m.tasks[id].item
        finish(r) ==
          IF r.threw
          THEN Fulfil([r.m EXCEPT !.ctx.parseErrors = @ \cup { key },
                                  !.ctx.resources[key].links = None,
                                  !.tasks[id].pr = "TypeError"], id)
          ELSE IF r.m.ctx.recordIds
               THEN Fulfil([r.m EXCEPT !.ctx.resources[key].ids = Some(SiteIds(key)),
                                       !.tasks[id].pr = "ok"], id)
               ELSE Fulfil([r.m EXCEPT !.tasks[id].pr = "ok"], id)
    IN IF outcome = "ok"
       THEN TheOne({ finish(r) : r \in { processHrefs([m EXCEPT !.ctx.resources[key].links = Some(<< >>)],
                                                       key, SiteHrefs(key), 1) } })
       ELSE Fulfil([m EXCEPT !.ctx.parseErrors = @ \cup { key },
                             !.tasks[id].pr = outcome], id)

\* processWorkItemAsync resumed from `await parse({ content, recordIds })`
\* with outcome "ok" or "Error" (the parser threw)
onParse(m, id, outcome) ==
    LET key == m.tasks[id].item
        finish(r) ==
          IF r.threw
          THEN Fulfil([r.m EXCEPT !.ctx.parseErrors = @ \cup { key },
                                  !.tasks[id].pr = "TypeError"], id)
          ELSE IF r.m.ctx.recordIds
               THEN Fulfil([r.m EXCEPT !.ctx.resources[key].ids = Some(SiteIds(key)),
                                       !.tasks[id].pr = "ok"], id)
               ELSE Fulfil([r.m EXCEPT !.tasks[id].pr = "ok"], id)
    IN IF outcome = "ok"
       THEN TheOne({ finish(r) : r \in { processHrefs([m EXCEPT !.ctx.resources[key].links = Some(<< >>)],
                                                       key, SiteHrefs(key), 1) } })
       ELSE Fulfil([m EXCEPT !.ctx.parseErrors = @ \cup { key },
                             !.tasks[id].pr = outcome], id)

\* crawlAsync, the loop over the entry points
RECURSIVE enqueueEntryPoints(_, _, _)
enqueueEntryPoints(m, us, i) ==
    IF i > Len(us) THEN m
    ELSE enqueueEntryPoints(enqueueURLIfNeeded(m, us[i], 0), us, i + 1)

NoContext ==
    [base |-> << >>, checkExternalLinks |-> FALSE, followExternalLinks |-> FALSE,
     recordIds |-> FALSE, maxDepth |-> 0,
     resources |-> << >>, order |-> << >>, parseErrors |-> { }]

\* crawlAsync's context literal (lines 211-226), the task queue apart
NewContext(base, opts) ==
    [base |-> base,
     checkExternalLinks |-> opts.externalLinks \in { "check", "follow" },
     followExternalLinks |-> opts.externalLinks = "follow",
     recordIds |-> opts.recordsIds,
     maxDepth |-> IF opts.depth # None THEN opts.depth[1] ELSE Infinity,
     resources |-> << >>, order |-> << >>, parseErrors |-> { }]

\* the base crawlAsync uses
BaseOf(us, opts) == IF opts.base # None THEN Href(opts.base[1]) ELSE getBaseFromURL(us[1])

\* A crawlAsync without the test of the entry points' bases
MixedBases_unchecked(us, opts) == FALSE

\* several entry points, no options.base, and not all of one base
MixedBases(us, opts) ==
    /\ Len(us) > 1
    /\ opts.base = None
    /\ \E i \in 1..Len(us) : getBaseFromURL(us[i]) # BaseOf(us, opts)

\* A test of options.base that is made for several entry points only
OutsideBase_severalOnly(us, opts) ==
    /\ Len(us) > 1
    /\ opts.base # None
    /\ \E i \in 1..Len(us) : ~StartsWith(Href(us[i]), BaseOf(us, opts))

\* options.base given and an entry point not under it
OutsideBase(us, opts) ==
    /\ opts.base # None
    /\ \E i \in 1..Len(us) : ~StartsWith(Href(us[i]), BaseOf(us, opts))

\* the maxConcurrency the TaskQueue constructor sees (default parameter 1)
MaxConcurrencyOf(opts) == IF opts.maxConcurrency = None THEN 1 ELSE opts.maxConcurrency[1]

\* the promises Promise.race(this.running) attaches a reaction to
Raced(r) == IF r.pc = "awaiting" THEN { r.m.tq.running[i] : i \in 1..Len(r.m.tq.running) } ELSE { }

\* the synchronous part of drain(): the loop up to its first await or its return
RunDrain(m0) ==
    \E m \in { m0 } : \E r \in { drainLoop(m) } :
       /\ Commit(r.m)
       /\ drainPc' = r.pc
       /\ raceSet' = Raced(r)
       /\ handled' = handled \cup Raced(r)
       /\ enqAtDrain' = IF drainPc = "idle" THEN Len(m.enq) ELSE enqAtDrain

\* the heap of a crawl when its context has been created
NewCrawl(us, opts) ==
    [tq |-> NewTaskQueue("processWorkItemAsync", MaxConcurrencyOf(opts)),
     tasks |-> << >>, enq |-> << >>,
     ctx |-> NewContext(BaseOf(us, opts), opts),
     script |-> << >>]

\* ---------------------------------------------------------------- actions
\* crawlAsync from its call to the await of drain(): validation, the
\* context, the entry points, and drain()'s synchronous part
CrawlAsync ==
    /\ crawlPc = "init"
    /\ IF urls = << >>
       THEN /\ crawlPc' = "done"
            /\ collection' = << >>
            /\ UNCHANGED << queueVars, context, thrown >>
       ELSE IF MixedBases(urls, options) \/ OutsideBase(urls, options)
       THEN /\ crawlPc' = "threw"
            /\ thrown' = "CrawlError"
            /\ UNCHANGED << queueVars, context, collection >>
       ELSE IF TaskQueueThrows(MaxConcurrencyOf(options))
       THEN /\ crawlPc' = "threw"
            /\ thrown' = "TaskQueueError"
            /\ UNCHANGED << queueVars, context, collection >>
       ELSE /\ RunDrain(enqueueEntryPoints(NewCrawl(urls, options), urls, 1))
            /\ crawlPc' = "draining"
            /\ UNCHANGED << uncaught, collection, thrown >>
    /\ UNCHANGED << script, options, urls, brokenLinks, writes >>

Alive == ~uncaught

\* the calls of the collaborators and the parser that have failed, or
\* have found no content-type header
Failures ==
    Cardinality({ c \in (1..Len(tasks)) \X { "ct", "rt", "pr" } :
                    tasks[c[1]][c[2]] \in { "NotFound", "PermissionDenied", "Error", "NoHeader" } })

\* a call may settle with this outcome
MaySettle(outcome) == outcome = "ok" \/ Failures < MaxFailures

\* getContentTypeAsync settles and processWorkItemAsync runs to its next await or its end
GetContentTypeDone(id, outcome) ==
    /\ Alive
    /\ id \in 1..Len(tasks)
    /\ tasks[id].pc = "getContentTypeAsync"
    /\ MaySettle(outcome)
    /\ outcome = "NoHeader" => context.resources[tasks[id].item].url.protocol # "file:"
    /\ \E m \in { onGetContentType(Heap, id, outcome) } : Commit(m)
    /\ UNCHANGED << drainPc, raceSet, handled, enqAtDrain, uncaught, script, options, urls, crawlPc, collection, thrown, brokenLinks, writes >>

\* What readTextAsync resolves to when it succeeds: the text of the page
SiteText(href) == << "text" >> \o PageOf(href)

\* options.content: whether the text of this resource is to be captured
InCaptureScope(content, internal) ==
    content = "save" \/ (content = "saveInternal" /\ internal)

\* the calls of handlers.writeTextAsync(url, content) made when
\* readTextAsync has settled with this outcome for this resource
writeTextCalls(opts, resource, outcome) ==
    IF outcome = "ok" /\ InCaptureScope(opts.content, resource.internal)
    THEN { [url |-> Href(resource.url), content |-> SiteText(Href(resource.url))] }
    ELSE { }

\* readTextAsync settles; the text it resolved to is captured when
\* options.content asks for it
ReadTextDone(id, outcome) ==
    /\ Alive
    /\ id \in 1..Len(tasks)
    /\ tasks[id].pc = "readTextAsync"
    /\ MaySettle(outcome)
    /\ \E m \in { onReadText(Heap, id, outcome) } : Commit(m)
    /\ writes' = writes \cup writeTextCalls(options, context.resources[tasks[id].item], outcome)
    /\ UNCHANGED << drainPc, raceSet, handled, enqAtDrain, uncaught, script, options, urls, crawlPc, collection, thrown, brokenLinks >>

\* the parser settles
ParseDone(id, outcome) ==
    /\ Alive
    /\ id \in 1..Len(tasks)
    /\ tasks[id].pc = "parse"
    /\ MaySettle(outcome)
    /\ \E m \in { onParse(Heap, id, outcome) } : Commit(m)
    /\ UNCHANGED << drainPc, raceSet, handled, enqAtDrain, uncaught, script, options, urls, crawlPc, collection, thrown, brokenLinks, writes >>

\* A finally callback that runs only when the handler succeeded (then instead of finally)
onSettled_thenOnly(m, id) ==
    IF m.tasks[id].p = "fulfilled"
    THEN [m EXCEPT !.tq.running = Splice1(@, IndexOf(@, id)),
                   !.tasks[id].fin = m.tasks[id].p]
    ELSE [m EXCEPT !.tasks[id].fin = m.tasks[id].p]

\* the callback of .finally(() => running.splice(running.indexOf(promise), 1)),
\* after which P' settles as P did
onSettled(m, id) ==
    [m EXCEPT !.tq.running = Splice1(@, IndexOf(@, id)),
              !.tasks[id].fin = m.tasks[id].p]

\* P has settled: the finally callback runs and P' settles.  A rejected P'
\* no Promise.race has a reaction on is an unhandled rejection.
FinallyCallback(id) ==
    /\ Alive
    /\ id \in 1..Len(tasks)
    /\ tasks[id].p # "pending"
    /\ tasks[id].fin = "pending"
    /\ Commit(onSettled(Heap, id))
    /\ uncaught' = (tasks[id].p = "rejected" /\ id \notin handled)
    /\ UNCHANGED << drainPc, raceSet, handled, enqAtDrain, script, options, urls, crawlPc, collection, thrown, brokenLinks, writes >>

\* drain() resumed from `await Promise.race(this.running)` (a rejection is
\* caught and dropped), up to its next await or its return
DrainResume ==
    /\ Alive
    /\ drainPc = "awaiting"
    /\ \E id \in raceSet : tasks[id].fin # "pending"
    /\ RunDrain(Heap)
    /\ UNCHANGED << uncaught, script, options, urls, crawlPc, collection, thrown, brokenLinks, writes >>

\* the public projection of one record
ResourceInfo(resource) ==
    [contentType |-> resource.contentType, links |-> resource.links, ids |-> resource.ids]

\* A projection that leaves out the records without a content type
Projection_dropsUnresolved(resources) ==
    [key \in { k \in DOMAIN resources : resources[k].contentType # None } |->
        ResourceInfo(resources[key])]

\* the loop over context.resources.entries(): one collection.set per record
Projection(resources) ==
    [key \in DOMAIN resources |-> ResourceInfo(resources[key])]

\* crawlAsync resumed from `await context.taskQueue.drain()`: the collection
CrawlReturn ==
    /\ Alive
    /\ crawlPc = "draining"
    /\ drainPc = "returned"
    /\ crawlPc' = "done"
    /\ collection' = Projection(context.resources)
    /\ UNCHANGED << queueVars, script, context, options, urls, thrown, brokenLinks, writes >>

\* ------------------------------------------------------------ link checker
\* the options checkLinksAsync passes to crawlAsync
CrawlOptionsOf(checkOptions) ==
    [base |-> checkOptions.base,
     externalLinks |-> IF checkOptions.checkExternalLinks THEN "check" ELSE "ignore",
     recordsIds |-> checkOptions.checkFragments,
     maxConcurrency |-> checkOptions.maxConcurrency,
     depth |-> None,
     content |-> "discard"]

\* !contentType: the content type is undefined or the empty string
Falsy(contentType) == contentType = None \/ contentType = Some(<< >>)

\* A test that reports a link with a fragment whose target has no ids
IsBroken_missingIdsBroken(coll, canonicalURL, checkFragments) ==
    LET targetResource == Href(getResourceIdentityFromURL(canonicalURL))
    IN IF targetResource \in DOMAIN coll
       THEN IF Falsy(coll[targetResource].contentType)
            THEN TRUE
            ELSE IF checkFragments /\ Hash(canonicalURL) # << >>
                 THEN \/ coll[targetResource].ids = None
                      \/ Tail(Hash(canonicalURL)) \notin coll[targetResource].ids[1]
                 ELSE FALSE
       ELSE FALSE

\* checkLinksAsync, the value of `broken` for one link: the target has a
\* record and !contentType holds of it, or fragments are checked,
\* the link has a hash, the record has ids and the fragment is not one
IsBroken(coll, canonicalURL, checkFragments) ==
    LET targetResource == Href(getResourceIdentityFromURL(canonicalURL))
    IN IF targetResource \in DOMAIN coll
       THEN IF Falsy(coll[targetResource].contentType)
            THEN TRUE
            ELSE IF checkFragments /\ Hash(canonicalURL) # << >> /\ coll[targetResource].ids # None
                 THEN Tail(Hash(canonicalURL)) \notin coll[targetResource].ids[1]
                 ELSE FALSE
       ELSE FALSE

\* the entry brokenLinks.push adds
BrokenLink(source, link) ==
    [source |-> source, target |-> Href(link.canonicalURL), href |-> link.originalHrefString]

\* the loop over info.links, from its i-th element
RECURSIVE linksLoop(_, _, _, _, _)
linksLoop(coll, source, links, i, checkFragments) ==
    IF i > Len(links) THEN << >>
    ELSE (IF IsBroken(coll, links[i].canonicalURL, checkFragments)
          THEN << BrokenLink(source, links[i]) >>
          ELSE << >>)
         \o linksLoop(coll, source, links, i + 1, checkFragments)

RECURSIVE entriesLoop_reportsOnce(_, _, _, _)

\* A loop that reports a broken link of a source once, however often it occurs
entriesLoop_reportsOnce(coll, keys, i, checkFragments) ==
    LET all == IF coll[keys[i]].links # None
               THEN linksLoop(coll, keys[i], coll[keys[i]].links[1], 1, checkFragments)
               ELSE << >>
        first(j) == \A k \in 1..(j - 1) : all[k] # all[j]
        RECURSIVE once(_)
        once(j) == IF j > Len(all) THEN << >>
                   ELSE (IF first(j) THEN << all[j] >> ELSE << >>) \o once(j + 1)
    IN IF i > Len(keys) THEN << >>
       ELSE once(1) \o entriesLoop_reportsOnce(coll, keys, i + 1, checkFragments)

\* the loop over collection.entries(), from its i-th entry; keys is the
\* order of the entries, the order in which collection.set was called
RECURSIVE entriesLoop(_, _, _, _)
entriesLoop(coll, keys, i, checkFragments) ==
    IF i > Len(keys) THEN << >>
    ELSE (IF coll[keys[i]].links # None
          THEN linksLoop(coll, keys[i], coll[keys[i]].links[1], 1, checkFragments)
          ELSE << >>)
         \o entriesLoop(coll, keys, i + 1, checkFragments)

\* ------------------------------------- a crawl whose units end in order
\* The crawl in which every call gives the site's answer and the units end
\* in the order they were started: the oldest unfinished unit runs to its
\* end, its finally callback runs, and drain() resumes.
OldestUnfinished(ts) ==
    IF \E id \in 1..Len(ts) : ts[id].pc # "end"
    THEN CHOOSE id \in 1..Len(ts) :
            ts[id].pc # "end" /\ \A j \in 1..(id - 1) : ts[j].pc = "end"
    ELSE 0

RunToEnd(m0, id) ==
    LET settle(m) == drainLoop(onSettled(m, id)).m
        parse(m) == TheOne({ settle(m2) : m2 \in { onParse(m, id, "ok") } })
        read(m) == IF m.tasks[id].pc = "readTextAsync"
                   THEN TheOne({ parse(m2) : m2 \in { onReadText(m, id, "ok") } })
                   ELSE settle(m)
    IN TheOne({ read(m) : m \in { onGetContentType(m0, id, "ok") } })

RECURSIVE InOrder(_)
InOrder(m0) ==
    LET body(m) ==
          IF OldestUnfinished(m.tasks) = 0
          THEN m
          ELSE InOrder(RunToEnd(m, OldestUnfinished(m.tasks)))
    IN TheOne({ body(m) : m \in { m0 } })

\* what crawlAsync(us, opts) returns then
InOrderCollection(us, opts) ==
    LET ctx == InOrder(drainLoop(enqueueEntryPoints(NewCrawl(us, opts), us, 1)).m).ctx
    IN Projection(ctx.resources)

\* ------------------------------------------------ the crawl specification
Outcomes == { "ok", "NotFound", "PermissionDenied" }

\* how getContentTypeAsync settles: as above, or with the empty string
ContentTypeOutcomes == Outcomes \cup { "NoHeader" }

NoTaskQueue == NewTaskQueue("none", 1)

EntryPoints ==
    { << IndexURL >>,
      << WithFrag(IndexURL, << "t" >>), OtherURL, IndexURL >>,
      << IndexURL, ExtURL >> }

\* options.base: absent; index's own URL, which is a prefix of the
\* stylesheet's ("/s/i" of "/s/ic") and not of other's; and an http: URL
BaseOptions == { None, Some(IndexURL), Some(MkURL("http:", << "/" >>)) }

DepthOptions == { None } \cup { Some(d) : d \in -1..MaxDepthOpt }

ConcurrencyOptions == { None } \cup { Some(n) : n \in -1..MaxConcurrencyOpt }

\* options.content; "discard" is the default
ContentOptions == { "discard", "saveInternal", "save" }

\* The options crawlAsync is given.  base, recordsIds and content do not
\* touch the scheduling, so they vary in the runs with the default
\* maxConcurrency only, and content in those without options.base.
CrawlOptions ==
    { o \in [base : BaseOptions,
             externalLinks : { "ignore", "check", "follow" },
             recordsIds : BOOLEAN,
             maxConcurrency : ConcurrencyOptions,
             depth : DepthOptions,
             content : ContentOptions] :
        /\ o.maxConcurrency = None \/ (o.base = None /\ ~o.recordsIds)
        /\ o.content = "discard" \/ (o.maxConcurrency = None /\ o.base = None) }

\* the options checkLinksAsync is given
CheckLinksOptions ==
    [base : BaseOptions,
     checkExternalLinks : BOOLEAN,
     checkFragments : BOOLEAN,
     maxConcurrency : ConcurrencyOptions]

\* checkLinksAsync resumed from `await this.crawler.crawlAsync(...)`: the
\* crawl was made with the options checkLinksAsync passes, and the entries
\* of the collection are in the order of context.resources
CheckLinksReturn ==
    /\ Alive
    /\ crawlPc = "done"
    /\ brokenLinks = None
    /\ \E checkOptions \in CheckLinksOptions :
          /\ options = CrawlOptionsOf(checkOptions)
          /\ brokenLinks' = Some(entriesLoop(collection, context.order, 1,
                                             checkOptions.checkFragments))
    /\ UNCHANGED << queueVars, script, context, options, urls, crawlPc, collection, thrown, writes >>

Init ==
    /\ taskQueue = NoTaskQueue
    /\ tasks = << >>
    /\ enq = << >>
    /\ drainPc = "idle"
    /\ raceSet = { }
    /\ handled = { }
    /\ enqAtDrain = -1
    /\ uncaught = FALSE
    /\ script = << >>
    /\ context = NoContext
    /\ urls \in EntryPoints
    /\ options \in CrawlOptions
    /\ crawlPc = "init"
    /\ collection = << >>
    /\ thrown = "none"
    /\ brokenLinks = None
    /\ writes = { }

Next ==
    \/ CrawlAsync
    \/ \E id \in 1..Len(tasks), outcome \in ContentTypeOutcomes : GetContentTypeDone(id, outcome)
    \/ \E id \in 1..Len(tasks), outcome \in Outcomes : ReadTextDone(id, outcome)
    \/ \E id \in 1..Len(tasks), outcome \in { "ok", "Error" } : ParseDone(id, outcome)
    \/ \E id \in 1..Len(tasks) : FinallyCallback(id)
    \/ DrainResume
    \/ CrawlReturn
    \/ CheckLinksReturn

Spec == Init /\ [][Next]_vars

\* ------------------------------------- the scheduler alone: TaskQueue<T>
\* A TaskQueue with a handler of any shape: before its first await it may
\* enqueue an item (script); after its first await it may enqueue an item
\* and await again; after an await it returns or throws.  The caller enqueues items and calls
\* drain() once, at any time.
Items == { 1, 2 }

Scripts == { f \in [Items -> Items \cup { 0 }] : \A i \in Items : f[i] = 0 \/ f[i] > i }

\* the caller's enqueue(item)
Enqueue(item) ==
    /\ Alive
    /\ drainPc # "returned"
    /\ Len(enq) < MaxEnqueues
    /\ \E m \in { enqueue(Heap, item) } : Commit(m)
    /\ UNCHANGED << drainPc, raceSet, handled, enqAtDrain, uncaught, script, options, urls, crawlPc, collection, thrown, brokenLinks, writes >>

\* the caller's drain(), up to its first await or its return
Drain ==
    /\ Alive
    /\ drainPc = "idle"
    /\ RunDrain(Heap)
    /\ UNCHANGED << uncaught, script, options, urls, crawlPc, collection, thrown, brokenLinks, writes >>

\* a handler resumes from its first await, enqueues an item and awaits again
HandlerContinue(id, kid) ==
    /\ Alive
    /\ id \in 1..Len(tasks)
    /\ tasks[id].pc = "await1"
    /\ Len(enq) < MaxEnqueues
    /\ \E m \in { enqueue(Heap, kid) } : Commit([m EXCEPT !.tasks[id].pc = "await2"])
    /\ UNCHANGED << drainPc, raceSet, handled, enqAtDrain, uncaught, script, options, urls, crawlPc, collection, thrown, brokenLinks, writes >>

\* a handler resumes from an await and returns ("ok") or throws
HandlerSettle(id, outcome) ==
    /\ Alive
    /\ id \in 1..Len(tasks)
    /\ tasks[id].pc \in { "await1", "await2" }
    /\ Commit(IF outcome = "ok" THEN Fulfil(Heap, id) ELSE Reject(Heap, id))
    /\ UNCHANGED << drainPc, raceSet, handled, enqAtDrain, uncaught, script, options, urls, crawlPc, collection, thrown, brokenLinks, writes >>

InitTQ ==
    /\ \E n \in 1..MaxConcurrencyOpt : taskQueue = NewTaskQueue("generic", n)
    /\ tasks = << >>
    /\ enq = << >>
    /\ drainPc = "idle"
    /\ raceSet = { }
    /\ handled = { }
    /\ enqAtDrain = -1
    /\ uncaught = FALSE
    /\ script \in Scripts
    /\ context = NoContext
    /\ urls = << >>
    /\ options = << >>
    /\ crawlPc = "none"
    /\ collection = << >>
    /\ thrown = "none"
    /\ brokenLinks = None
    /\ writes = { }

NextTQ ==
    \/ \E item \in Items : Enqueue(item)
    \/ Drain
    \/ \E id \in 1..Len(tasks), kid \in Items : HandlerContinue(id, kid)
    \/ \E id \in 1..Len(tasks), outcome \in { "ok", "Error" } : HandlerSettle(id, outcome)
    \/ \E id \in 1..Len(tasks) : FinallyCallback(id)
    \/ DrainResume

SpecTQ == InitTQ /\ [][NextTQ]_vars

\* ------------------------------------------------------------- fairness
\* Every pending collaborator call settles and every queued job of the
\* event loop runs.
FairSpec == Spec /\ WF_vars(Next)

FairSpecTQ == SpecTQ /\ WF_vars(NextTQ)

\* ----------------------------------------------------------------- claims
NoDuplicates(s) == \A i, j \in 1..Len(s) : s[i] = s[j] => i = j

TaskItems == [i \in 1..Len(tasks) |-> tasks[i].item]

Pending == { id \in 1..Len(tasks) : tasks[id].p = "pending" }

Rejected == { id \in 1..Len(tasks) : tasks[id].p = "rejected" }

\* a call of the access collaborator has failed with the permission error
FatalRaised ==
    \E id \in 1..Len(tasks) : tasks[id].ct = "PermissionDenied" \/ tasks[id].rt = "PermissionDenied"

\* C1: in one crawl run every resource key has at most one record and at
\* most one work item: no key is inserted twice, passed to enqueue() twice
\* or handed to the handler twice, and every record has exactly one
\* enqueue() call.
C1_OneRecordOneUnitPerKey ==
    /\ NoDuplicates(context.order)
    /\ NoDuplicates(enq)
    /\ NoDuplicates(TaskItems)
    /\ enq = context.order
    /\ DOMAIN context.resources = { context.order[i] : i \in 1..Len(context.order) }

\* C1 witness: the crawl is over, index and other link to each other, and
\* index holds two links to other that differ only in the fragment
C1_Witness ==
    /\ crawlPc = "done"
    /\ Href(IndexURL) \in DOMAIN context.resources
    /\ Href(OtherURL) \in DOMAIN context.resources
    /\ context.resources[Href(IndexURL)].links # None
    /\ Len(context.resources[Href(IndexURL)].links[1]) >= 3
    /\ context.resources[Href(OtherURL)].links # None
    /\ Len(context.resources[Href(OtherURL)].links[1]) = 3

\* C2: when every collaborator and parser call settles, every crawl of the
\* site (index <-> other link to each other, other links to itself) ends:
\* drain() returns and crawlAsync returns the collection, unless the
\* options were refused at the start or a call failed with the permission
\* error and its rejection ended the program.
C2_CrawlTerminates == <>(crawlPc \in { "done", "threw" } \/ (FatalRaised /\ uncaught))

\* C2 witness: a crawl over the mutual links index <-> other has returned
C2_Witness ==
    /\ crawlPc = "done"
    /\ ~FatalRaised
    /\ Href(OtherURL) \in DOMAIN collection
    /\ collection[Href(OtherURL)].links # None
    /\ \E i \in 1..Len(collection[Href(OtherURL)].links[1]) :
          Href(getResourceIdentityFromURL(collection[Href(OtherURL)].links[1][i].canonicalURL))
            = Href(IndexURL)
    /\ Href(IndexURL) \in DOMAIN collection
    /\ collection[Href(IndexURL)].links # None
    /\ \E i \in 1..Len(collection[Href(IndexURL)].links[1]) :
          Href(getResourceIdentityFromURL(collection[Href(IndexURL)].links[1][i].canonicalURL))
            = Href(OtherURL)

\* C3: at most maxConcurrency handler invocations are in flight
C3_AtMostNInFlight == Cardinality(Pending) <= taskQueue.maxConcurrency

\* C4: when drain() has returned, nothing is queued, nothing is in
\* `running`, and no handler invocation is unfinished
C4_DrainReturnsWhenIdle ==
    drainPc = "returned" =>
        /\ taskQueue.queued = << >>
        /\ taskQueue.running = << >>
        /\ \A id \in 1..Len(tasks) : tasks[id].p # "pending" /\ tasks[id].fin # "pending"

\* C4 witness: drain() has returned after work that was enqueued after it was called
C4_Witness ==
    /\ drainPc = "returned"
    /\ Len(enq) > enqAtDrain
    /\ enqAtDrain > 0

\* C5: the items handed to the handler, in order, followed by the items
\* still queued, are the items passed to enqueue(): each is handed over
\* once or is still queued; and when drain() has returned each has been
\* handed over and its invocation has finished
C5_EachItemHandledOnce ==
    /\ TaskItems \o taskQueue.queued = enq
    /\ drainPc = "returned" => (Len(tasks) = Len(enq) /\ Pending = { })

\* C5 witness: drain() has returned, the caller enqueued before drain()
\* and a handler enqueued during it
C5_Witness ==
    /\ drainPc = "returned"
    /\ enqAtDrain >= 1
    /\ Len(enq) >= enqAtDrain + 2
    /\ \E i, j \in 1..Len(enq) : i # j /\ enq[i] = enq[j]

\* C6: a crawl in which a call failed with the permission error does not
\* return a collection
C6_FatalErrorFailsCrawl == FatalRaised => crawlPc # "done"

\* C7: once a call has failed with the permission error no handler
\* invocation is started and no access call is issued
C7_NothingStartsAfterFatal ==
    [][FatalRaised =>
         /\ Len(tasks') = Len(tasks)
         /\ \A id \in 1..Len(tasks) : tasks[id].rt = "none" => tasks'[id].rt = "none"]_vars

\* C8: a handler failure does not stop the scheduler, drain() still gets to
\* return: the failure of one handler never ends the program while drain()
\* is waiting for other handlers, all of them still running
C8_FailureDoesNotStopScheduler ==
    ~(/\ uncaught
      /\ drainPc = "awaiting"
      /\ \A id \in raceSet : tasks[id].p = "pending")

\* C8, the part that holds: the slot of a settled handler is freed whether
\* it returned or threw, and every rejection drain() awaits is dropped
C8_SlotFreed ==
    \A id \in 1..Len(tasks) :
        tasks[id].fin # "pending" => \A i \in 1..Len(taskQueue.running) : taskQueue.running[i] # id

\* C9: a resource whose getContentTypeAsync failed with an ordinary error
\* keeps contentType unset, has no links and no ids, its handler returns
\* normally, and when the crawl returns every enqueued resource has been
\* processed
C9_OrdinaryContentTypeFailure ==
    /\ \A id \in 1..Len(tasks) :
          tasks[id].ct = "NotFound" =>
              /\ context.resources[tasks[id].item].contentType = None
              /\ context.resources[tasks[id].item].links = None
              /\ context.resources[tasks[id].item].ids = None
              /\ tasks[id].rt = "none"
              /\ tasks[id].p = "fulfilled"
    /\ crawlPc = "done" =>
          /\ Len(tasks) = Len(enq)
          /\ \A id \in 1..Len(tasks) : tasks[id].p # "pending"
          /\ \A id \in 1..Len(tasks) :
                tasks[id].ct = "NotFound" => collection[tasks[id].item].contentType = None

\* C9 witness: the crawl returned, style's content type lookup failed, and
\* other, enqueued after style, was parsed
C9_Witness ==
    /\ crawlPc = "done"
    /\ ~FatalRaised
    /\ \E id \in 1..Len(tasks) : tasks[id].ct = "NotFound" /\ tasks[id].item = Href(StyleURL)
    /\ Href(OtherURL) \in DOMAIN collection
    /\ collection[Href(OtherURL)].links # None

\* C10: a resource whose readTextAsync failed with an ordinary error has
\* contentType unset, no links and no ids, and the step that handles the
\* failure passes nothing to enqueue() and creates no record
C10_OrdinaryReadFailure ==
    /\ [](\A id \in 1..Len(tasks) :
            tasks[id].rt = "NotFound" =>
                /\ tasks[id].ct = "ok"
                /\ context.resources[tasks[id].item].contentType = None
                /\ context.resources[tasks[id].item].links = None
                /\ context.resources[tasks[id].item].ids = None)
    /\ [][\A id \in 1..Len(tasks) :
            (tasks[id].rt = "called" /\ tasks'[id].rt = "NotFound") =>
                /\ enq' = enq
                /\ context'.order = context.order
                /\ Len(tasks') = Len(tasks)]_vars

\* C10 witness: the crawl returned and index's text could not be read
C10_Witness ==
    /\ crawlPc = "done"
    /\ Href(IndexURL) \in DOMAIN collection
    /\ \E id \in 1..Len(tasks) : tasks[id].rt = "NotFound" /\ tasks[id].item = Href(IndexURL)
    /\ collection[Href(IndexURL)].contentType = None
    /\ collection[Href(IndexURL)].links = None

\* a task of this key exists and its getContentTypeAsync call has settled
ContentTypeAsked(key) ==
    \E id \in 1..Len(tasks) : tasks[id].item = key /\ tasks[id].ct \notin { "none", "called" }

\* C11: when the parser or new URL() throws while a resource is processed,
\* the resource's key is in parseErrors and its handler returns normally;
\* no handler fails and crawlAsync does not throw unless a call failed with
\* the permission error; and when the crawl returns every enqueued resource
\* has been processed
C11_ProcessingErrorIsNoted ==
    /\ \A id \in 1..Len(tasks) :
          tasks[id].pr \in { "Error", "TypeError" } =>
              /\ tasks[id].item \in context.parseErrors
              /\ tasks[id].p = "fulfilled"
              /\ crawlPc # "threw"
    /\ ~FatalRaised => (Rejected = { } /\ ~uncaught)
    /\ crawlPc = "done" =>
          /\ Len(tasks) = Len(enq)
          /\ \A id \in 1..Len(tasks) : tasks[id].p # "pending"

\* C11 witness: the crawl returned; the parser threw on index, new URL()
\* threw on a link of ext2, and other, queued behind index, was parsed
C11_Witness ==
    /\ crawlPc = "done"
    /\ ~FatalRaised
    /\ \E id \in 1..Len(tasks) : tasks[id].item = Href(IndexURL) /\ tasks[id].pr = "Error"
    /\ \E id \in 1..Len(tasks) : tasks[id].item = Href(Ext2URL) /\ tasks[id].pr = "TypeError"
    /\ { Href(IndexURL), Href(Ext2URL) } \subseteq context.parseErrors
    /\ Href(OtherURL) \in DOMAIN collection
    /\ collection[Href(OtherURL)].links # None

\* C12: with options.depth = D a resource whose depth is >= D is never
\* parsed: readTextAsync and the parser are not called for it and it has no
\* links; when the crawl returns, getContentTypeAsync has been called for
\* it and the content type it resolved to is in the result
C12_NotParsedAtDepthLimit ==
    options.depth # None =>
        /\ \A key \in DOMAIN context.resources :
              context.resources[key].depth >= options.depth[1] =>
                  /\ context.resources[key].links = None
                  /\ \A id \in 1..Len(tasks) :
                        tasks[id].item = key => (tasks[id].rt = "none" /\ tasks[id].pr = "none")
        /\ crawlPc = "done" =>
              \A key \in DOMAIN collection :
                  context.resources[key].depth >= options.depth[1] =>
                      /\ collection[key].links = None
                      /\ ContentTypeAsked(key)
                      /\ \A id \in 1..Len(tasks) :
                            (tasks[id].item = key /\ tasks[id].ct = "ok") =>
                                collection[key].contentType = Some(SiteContentType(key))

\* C12 witness: depth = 1, the crawl returned, index (depth 0) was parsed,
\* other (depth 1) has its content type and no links
C12_Witness ==
    /\ crawlPc = "done"
    /\ options.depth = Some(1)
    /\ Href(IndexURL) \in DOMAIN collection
    /\ collection[Href(IndexURL)].links # None
    /\ Href(OtherURL) \in DOMAIN collection
    /\ context.resources[Href(OtherURL)].depth = 1
    /\ collection[Href(OtherURL)].contentType = Some(htmlTypeCharset)
    /\ collection[Href(OtherURL)].links = None

\* C13: with options.depth = D no record has a depth above D and every
\* handler invocation, hence every access call, is for a key that has a
\* record; with D < 0 no record is created, nothing is started and the
\* crawl returns an empty collection
C13_NothingBeyondDepthLimit ==
    options.depth # None =>
        /\ \A key \in DOMAIN context.resources :
              context.resources[key].depth <= options.depth[1]
        /\ \A id \in 1..Len(tasks) : tasks[id].item \in DOMAIN context.resources
        /\ options.depth[1] < 0 =>
              /\ DOMAIN context.resources = { }
              /\ tasks = << >>
              /\ enq = << >>
              /\ crawlPc = "done" => DOMAIN collection = { }

\* C13 witness: depth = -1 and the crawl of the entry points returned
C13_Witness ==
    /\ crawlPc = "done"
    /\ options.depth = Some(-1)
    /\ Len(urls) = 3
    /\ DOMAIN collection = { }

\* C14: a record's depth never changes, and a record is created with depth
\* 0 by the loop over the entry points and with the depth of the parsed
\* resource plus one by the loop over its hrefs
C14_DepthFixedAtCreation ==
    [][/\ \A key \in DOMAIN context.resources :
             /\ key \in DOMAIN context'.resources
             /\ context'.resources[key].depth = context.resources[key].depth
       /\ \A key \in DOMAIN context'.resources \ DOMAIN context.resources :
             IF crawlPc = "init"
             THEN context'.resources[key].depth = 0
             ELSE \E id \in 1..Len(tasks) :
                     /\ tasks[id].pc = "parse"
                     /\ tasks'[id].pc = "end"
                     /\ context'.resources[key].depth
                          = context.resources[tasks[id].item].depth + 1]_vars

\* C14 witness: ext2 was found through index -> ext -> ext2 and has depth
\* 2, and other, an entry point that links to ext2, was parsed later
C14_Witness ==
    /\ crawlPc = "done"
    /\ Href(Ext2URL) \in DOMAIN context.resources
    /\ context.resources[Href(Ext2URL)].depth = 2
    /\ Href(OtherURL) \in DOMAIN context.resources
    /\ context.resources[Href(OtherURL)].depth = 0
    /\ context.resources[Href(OtherURL)].links # None
    /\ Len(context.resources[Href(OtherURL)].links[1]) = 3

\* every call of the run gave the site's answer
SiteAnswers ==
    \A id \in 1..Len(tasks) :
        /\ tasks[id].ct = "ok"
        /\ tasks[id].rt \in { "none", "ok" }
        /\ tasks[id].pr \in { "none", "ok", "TypeError" }

\* C15: for given entry points, options and answers, the collection
\* crawlAsync returns does not depend on the order in which the units end:
\* it is the collection of the crawl whose units end in the order they
\* were started
C15_SameCollectionForEveryOrder ==
    (crawlPc = "done" /\ SiteAnswers) => collection = InOrderCollection(urls, options)

\* C16: references that differ only in the fragment never make two
\* records: no two records are for URLs that are equal up to the fragment
C16_FragmentNeverMakesSecondRecord ==
    \A k1, k2 \in DOMAIN context.resources :
        (/\ context.resources[k1].url.protocol = context.resources[k2].url.protocol
         /\ context.resources[k1].url.body = context.resources[k2].url.body) => k1 = k2

\* C16, the part that holds: a reference with a non-empty fragment adds no
\* record of its own, every record's URL has an empty url.hash
C16_NoHashInRecords ==
    \A key \in DOMAIN context.resources : Hash(context.resources[key].url) = << >>

\* nothing of the crawl has happened: no record, no enqueue(), no handler
\* invocation and so no access call
NothingStarted ==
    /\ DOMAIN context.resources = { }
    /\ enq = << >>
    /\ tasks = << >>

\* C17: several entry points, no options.base, and an entry point whose
\* parent path is not the first one's: crawlAsync throws CrawlError, and
\* nothing of the crawl has happened
C17_MixedBasesRefused ==
    (/\ Len(urls) > 1
     /\ options.base = None
     /\ \E i \in 1..Len(urls) : getBaseFromURL(urls[i]) # getBaseFromURL(urls[1]))
    => /\ crawlPc \in { "init", "threw" }
       /\ crawlPc = "threw" => thrown = "CrawlError"
       /\ NothingStarted

\* C17 witness: crawlAsync([index, ext]) without options.base has thrown
C17_Witness ==
    /\ crawlPc = "threw"
    /\ thrown = "CrawlError"
    /\ urls = << IndexURL, ExtURL >>
    /\ options.base = None

\* C18: with options.base, crawlAsync throws CrawlError before anything of
\* the crawl has happened when an entry point's href does not start with
\* the base's href, and it does not throw CrawlError otherwise
C18_EntryPointsUnderBase ==
    options.base # None =>
        IF \E i \in 1..Len(urls) : ~StartsWith(Href(urls[i]), Href(options.base[1]))
        THEN /\ crawlPc \in { "init", "threw" }
             /\ crawlPc = "threw" => thrown = "CrawlError"
             /\ NothingStarted
        ELSE thrown # "CrawlError"

\* C18 witness: crawlAsync(index, { base: http:/ }) with its one entry
\* point has thrown
C18_Witness ==
    /\ crawlPc = "threw"
    /\ thrown = "CrawlError"
    /\ urls = << IndexURL >>
    /\ options.base = Some(MkURL("http:", << "/" >>))

\* C19: with options.maxConcurrency <= 0 crawlAsync throws: TaskQueueError
\* from the TaskQueue constructor unless the entry points were refused
\* first, and nothing of the crawl has happened
C19_NonPositiveConcurrencyRefused ==
    (options.maxConcurrency # None /\ options.maxConcurrency[1] <= 0)
    => /\ crawlPc \in { "init", "threw" }
       /\ crawlPc = "threw" =>
             thrown = (IF MixedBases(urls, options) THEN "CrawlError" ELSE "TaskQueueError")
       /\ NothingStarted

\* C19 witness: crawlAsync(index, { maxConcurrency: 0 }) has thrown TaskQueueError
C19_Witness ==
    /\ crawlPc = "threw"
    /\ thrown = "TaskQueueError"
    /\ options.maxConcurrency = Some(0)
    /\ urls = << IndexURL >>

\* the hrefs of a parsed resource that new URL() resolves to an allowed protocol
AllowedHrefs(key) ==
    { i \in 1..Len(SiteHrefs(key)) :
        NewURL(SiteHrefs(key)[i], context.resources[key].url).protocol \in allowedProtocols }

\* C20: every record is for a key that starts with the base or was made
\* with externalLinks check or follow, and handlers run for keys with a
\* record only; the links of a parsed resource are all its hrefs of an
\* allowed protocol, whether their targets have a record or not
C20_RecordsOnlyForEligibleKeys ==
    /\ \A key \in DOMAIN context.resources :
          /\ context.resources[key].internal = StartsWith(key, context.base)
          /\ context.resources[key].internal \/ options.externalLinks \in { "check", "follow" }
    /\ \A id \in 1..Len(tasks) :
          /\ tasks[id].item \in DOMAIN context.resources
          /\ tasks[id].pr = "ok" =>
                Len(context.resources[tasks[id].item].links[1])
                  = Cardinality(AllowedHrefs(tasks[id].item))

\* C20 witness: externalLinks = ignore, the crawl returned, index has its
\* link to ext and ext has no record
C20_Witness ==
    /\ crawlPc = "done"
    /\ options.externalLinks = "ignore"
    /\ Href(IndexURL) \in DOMAIN collection
    /\ collection[Href(IndexURL)].links # None
    /\ \E i \in 1..Len(collection[Href(IndexURL)].links[1]) :
          collection[Href(IndexURL)].links[1][i].canonicalURL = ExtURL
    /\ Href(ExtURL) \notin DOMAIN collection
    /\ \A id \in 1..Len(tasks) : tasks[id].item # Href(ExtURL)

\* the handler invocations made for a key
TasksOf(key) == { id \in 1..Len(tasks) : tasks[id].item = key }

\* C21: a record has links or ids only if a parser is registered for its
\* content type, it is internal or externalLinks is follow, and its depth
\* is below maxDepth; with externalLinks = check an external resource is
\* never read or parsed and has no links and no ids, and when the crawl
\* returns its content type has been asked for
C21_LinksOnlyIfParsed ==
    /\ \A key \in DOMAIN context.resources :
          (context.resources[key].links # None \/ context.resources[key].ids # None) =>
              /\ context.resources[key].contentType # None
              /\ contentTypeShort(context.resources[key].contentType[1]) \in contentTypeParsers
              /\ (StartsWith(key, context.base) \/ options.externalLinks = "follow")
              /\ context.resources[key].depth < context.maxDepth
    /\ options.externalLinks = "check" =>
          \A key \in DOMAIN context.resources :
              ~StartsWith(key, context.base) =>
                  /\ context.resources[key].links = None
                  /\ context.resources[key].ids = None
                  /\ \A id \in TasksOf(key) : tasks[id].rt = "none" /\ tasks[id].pr = "none"
                  /\ crawlPc = "done" => ContentTypeAsked(key)

\* C21 witness: externalLinks = check, the crawl returned, index was parsed
\* and ext has its content type, for which a parser is registered, and no
\* links
C21_Witness ==
    /\ crawlPc = "done"
    /\ options.externalLinks = "check"
    /\ Href(IndexURL) \in DOMAIN collection
    /\ collection[Href(IndexURL)].links # None
    /\ Href(ExtURL) \in DOMAIN collection
    /\ collection[Href(ExtURL)].contentType = Some(htmlType)
    /\ collection[Href(ExtURL)].links = None
    /\ Href(Ext2URL) \notin DOMAIN collection

\* C22: a link whose resolved protocol is not file:, http: or https: is
\* never enqueued: a record, an enqueue() call and a handler invocation
\* are for entry points and for URLs of these protocols only
C22_OtherProtocolsNeverEnqueued ==
    LET EntryKeys == { Href(getResourceIdentityFromURL(urls[i])) : i \in 1..Len(urls) }
    IN /\ \A key \in DOMAIN context.resources :
             key \in EntryKeys \/ context.resources[key].url.protocol \in allowedProtocols
       /\ \A i \in 1..Len(enq) : enq[i] \in EntryKeys \/ enq[i][1] \in allowedProtocols
       /\ \A id \in 1..Len(tasks) :
             tasks[id].item \in EntryKeys \/ tasks[id].item[1] \in allowedProtocols
       /\ Href(MailURL) \notin DOMAIN context.resources

\* C22 witness: external links are taken, the crawl returned, index with
\* its mailto: link was parsed to the end
C22_Witness ==
    /\ crawlPc = "done"
    /\ options.externalLinks \in { "check", "follow" }
    /\ \E id \in TasksOf(Href(IndexURL)) : tasks[id].pr = "ok"
    /\ \E i \in 1..Len(SiteHrefs(Href(IndexURL))) : SiteHrefs(Href(IndexURL))[i] = AbsRef(MailURL)
    /\ Href(ExtURL) \in DOMAIN collection
    /\ Href(MailURL) \notin DOMAIN collection

\* the links a parsed resource has when the loop over its hrefs has ended:
\* its hrefs of an allowed protocol, in the parser's order
RECURSIVE AllowedLinks(_, _, _)
AllowedLinks(hrefs, base, i) ==
    IF i > Len(hrefs) THEN << >>
    ELSE IF NewURL(hrefs[i], base).protocol \in allowedProtocols
    THEN << [canonicalURL |-> NewURL(hrefs[i], base), originalHrefString |-> hrefs[i]] >>
           \o AllowedLinks(hrefs, base, i + 1)
    ELSE AllowedLinks(hrefs, base, i + 1)

\* C23 as stated: every href of a resource parsed to the end is among its
\* links, whatever its protocol
C23_EveryHrefIsRecorded ==
    \A id \in 1..Len(tasks) :
        tasks[id].pr = "ok" =>
            \A i \in 1..Len(SiteHrefs(tasks[id].item)) :
                \E j \in 1..Len(context.resources[tasks[id].item].links[1]) :
                    context.resources[tasks[id].item].links[1][j].originalHrefString
                      = SiteHrefs(tasks[id].item)[i]

\* C23 as amended: a link whose protocol is not file:, http: or https: is
\* neither recorded nor enqueued: the links of a resource parsed to the end
\* are its hrefs of these protocols, in the parser's order, each with its
\* resolved URL and its original text
C23_OnlyAllowedLinksRecorded ==
    /\ \A id \in 1..Len(tasks) :
          tasks[id].pr = "ok" =>
              context.resources[tasks[id].item].links
                = Some(AllowedLinks(SiteHrefs(tasks[id].item), context.resources[tasks[id].item].url, 1))
    /\ \A key \in DOMAIN context.resources :
          context.resources[key].links # None =>
              \A j \in 1..Len(context.resources[key].links[1]) :
                  context.resources[key].links[1][j].canonicalURL.protocol \in allowedProtocols

\* C23 witness: the crawl returned and index, which holds a mailto: link,
\* has the links around it and not the mailto: link
C23_Witness ==
    /\ crawlPc = "done"
    /\ Href(IndexURL) \in DOMAIN collection
    /\ collection[Href(IndexURL)].links # None
    /\ \E j \in 1..Len(collection[Href(IndexURL)].links[1]) :
          collection[Href(IndexURL)].links[1][j].canonicalURL = ExtURL
    /\ \A j \in 1..Len(collection[Href(IndexURL)].links[1]) :
          collection[Href(IndexURL)].links[1][j].canonicalURL # MailURL
    /\ \E i \in 1..Len(SiteHrefs(Href(IndexURL))) : SiteHrefs(Href(IndexURL))[i] = AbsRef(MailURL)

\* the URL without its fragment and without the "#"
WithoutFragment(u) == [u EXCEPT !.hasFrag = FALSE, !.frag = << >>]

\* checkLinksAsync has returned an entry for this link of this source
Reported(source, link) ==
    \E i \in 1..Len(brokenLinks[1]) : brokenLinks[1][i] = BrokenLink(source, link)

\* the sources of the collection that have links
Sources == { key \in DOMAIN collection : collection[key].links # None }

\* C24: with checkFragments off, a link is reported if and only if the key
\* of its target without the fragment has a record in the collection and
\* the record has no content type; a link whose target has no record is
\* not reported
C24_BrokenIffTargetUnresolved ==
    (brokenLinks # None /\ ~options.recordsIds) =>
        \A source \in Sources :
            \A j \in 1..Len(collection[source].links[1]) :
                LET link == collection[source].links[1][j]
                    key == Href(WithoutFragment(link.canonicalURL))
                IN Reported(source, link)
                     <=> (key \in DOMAIN collection /\ collection[key].contentType = None)

\* C24, the part that holds: with checkFragments off, a link is reported
\* if and only if its target has a record whose content type is unset or
\* the empty string
C24_BrokenIffContentTypeFalsy ==
    (brokenLinks # None /\ ~options.recordsIds) =>
        \A source \in Sources :
            \A j \in 1..Len(collection[source].links[1]) :
                LET link == collection[source].links[1][j]
                    key == Href(WithoutFragment(link.canonicalURL))
                IN Reported(source, link)
                     <=> /\ key \in DOMAIN collection
                         /\ collection[key].contentType \in { None, Some(noContentType) }

\* C25 as stated: with checkFragments on, a link with a fragment whose
\* target record has a content type is reported unless the record has ids
\* that contain the fragment; a record without ids makes the link reported
C25_FragmentBrokenUnlessInIds ==
    (brokenLinks # None /\ options.recordsIds) =>
        \A source \in Sources :
            \A j \in 1..Len(collection[source].links[1]) :
                LET link == collection[source].links[1][j]
                    key == Href(WithoutFragment(link.canonicalURL))
                IN (/\ Hash(link.canonicalURL) # << >>
                    /\ key \in DOMAIN collection
                    /\ collection[key].contentType # None)
                   => (Reported(source, link)
                         <=> ~(/\ collection[key].ids # None
                               /\ link.canonicalURL.frag \in collection[key].ids[1]))

\* C25 as amended: with checkFragments on, a link with a fragment whose
\* target record has a content type other than the empty string is
\* reported if and only if the record has ids and they do not contain the
\* fragment; a record without ids (the resource was not parsed) does not
\* make the link reported
C25_FragmentBrokenIfNotInIds ==
    (brokenLinks # None /\ options.recordsIds) =>
        \A source \in Sources :
            \A j \in 1..Len(collection[source].links[1]) :
                LET link == collection[source].links[1][j]
                    key == Href(WithoutFragment(link.canonicalURL))
                IN (/\ Hash(link.canonicalURL) # << >>
                    /\ key \in DOMAIN collection
                    /\ collection[key].contentType \notin { None, Some(noContentType) })
                   => (Reported(source, link)
                         <=> (/\ collection[key].ids # None
                              /\ link.canonicalURL.frag \notin collection[key].ids[1]))

\* C25 witness: checkLinksAsync with checkFragments and checkExternalLinks
\* has returned; o#a (an id of other) is not reported, o#b (no id of
\* other) is, and y#f, whose target was checked and not parsed, is not
C25_Witness ==
    /\ brokenLinks # None
    /\ options.recordsIds
    /\ options.externalLinks = "check"
    /\ Href(IndexURL) \in Sources
    /\ Href(OtherURL) \in Sources
    /\ collection[Href(OtherURL)].ids = Some({ << "a" >> })
    /\ Href(Ext2URL) \in DOMAIN collection
    /\ collection[Href(Ext2URL)].contentType = Some(htmlType)
    /\ collection[Href(Ext2URL)].ids = None
    /\ ~Reported(Href(IndexURL), [canonicalURL |-> WithFrag(OtherURL, << "a" >>),
                                  originalHrefString |-> RelFragRef(<< "o" >>, << "a" >>)])
    /\ Reported(Href(IndexURL), [canonicalURL |-> WithFrag(OtherURL, << "b" >>),
                                 originalHrefString |-> RelFragRef(<< "o" >>, << "b" >>)])
    /\ \E j \in 1..Len(collection[Href(OtherURL)].links[1]) :
          /\ collection[Href(OtherURL)].links[1][j].canonicalURL = WithFrag(Ext2URL, << "f" >>)
          /\ ~Reported(Href(OtherURL), collection[Href(OtherURL)].links[1][j])

\* the place of a key in the order the records were created in
CreatedAt(key) == CHOOSE i \in 1..Len(context.order) : context.order[i] = key

\* C26: brokenLinks is in discovery order: its entries are grouped by
\* source, the sources in the order their records were created, and the
\* entries of one source are its links that are reported, in the parser's
\* order, a link that occurs k times being there k times, each entry with
\* the source key, the resolved target and the original reference
C26_BrokenLinksInDiscoveryOrder ==
    brokenLinks # None =>
        LET bl == brokenLinks[1]
            IsReported(e) == \E i \in 1..Len(bl) : bl[i] = e
        IN /\ \A i \in 1..Len(bl) : bl[i].source \in Sources
           /\ \A i, j \in 1..Len(bl) :
                 i < j => CreatedAt(bl[i].source) <= CreatedAt(bl[j].source)
           /\ \A source \in Sources :
                 LET From(e) == e.source = source
                     entries == [j \in 1..Len(collection[source].links[1]) |->
                                    [source |-> source,
                                     target |-> Href(collection[source].links[1][j].canonicalURL),
                                     href |-> collection[source].links[1][j].originalHrefString]]
                 IN SelectSeq(bl, From) = SelectSeq(entries, IsReported)

\* C26 witness: checkLinksAsync has returned three entries: index's
\* link o#b, which occurs twice, twice, and then other's link y#f, whose
\* target ext2 was not found
C26_Witness ==
    /\ brokenLinks # None
    /\ Len(brokenLinks[1]) = 3
    /\ brokenLinks[1][1] = [source |-> Href(IndexURL), target |-> Href(WithFrag(OtherURL, << "b" >>)),
                            href |-> RelFragRef(<< "o" >>, << "b" >>)]
    /\ brokenLinks[1][2] = brokenLinks[1][1]
    /\ brokenLinks[1][3] = [source |-> Href(OtherURL), target |-> Href(WithFrag(Ext2URL, << "f" >>)),
                            href |-> AbsRef(WithFrag(Ext2URL, << "f" >>))]
    /\ CreatedAt(Href(IndexURL)) < CreatedAt(Href(OtherURL))

\* C27: the collection crawlAsync returns has exactly one entry per record
\* of context.resources, that is per key passed to enqueue(), with the
\* record's content type, links and ids, whether the content type lookup
\* failed or the resource was not parsed
C27_OneEntryPerRecord ==
    crawlPc = "done" =>
        /\ DOMAIN collection = DOMAIN context.resources
        /\ DOMAIN collection = { enq[i] : i \in 1..Len(enq) }
        /\ Cardinality(DOMAIN collection) = Len(enq)
        /\ \A key \in DOMAIN collection :
              /\ collection[key].contentType = context.resources[key].contentType
              /\ collection[key].links = context.resources[key].links
              /\ collection[key].ids = context.resources[key].ids

\* C27 witness: the crawl returned; style's content type lookup failed,
\* ext was checked and not parsed, index was parsed, and all three have an
\* entry
C27_Witness ==
    /\ crawlPc = "done"
    /\ { Href(IndexURL), Href(StyleURL), Href(ExtURL) } \subseteq DOMAIN collection
    /\ \E id \in TasksOf(Href(StyleURL)) : tasks[id].ct = "NotFound"
    /\ collection[Href(StyleURL)].contentType = None
    /\ collection[Href(ExtURL)].contentType # None
    /\ collection[Href(ExtURL)].links = None
    /\ collection[Href(IndexURL)].links # None

\* C28 as stated: with recordsIds false no record has ids, and with
\* recordsIds true every record whose parser returned has the ids the
\* parser returned
C28_EveryParsedRecordHasIds ==
    /\ ~options.recordsIds => \A key \in DOMAIN context.resources : context.resources[key].ids = None
    /\ options.recordsIds =>
          \A id \in 1..Len(tasks) :
              tasks[id].pr \in { "ok", "TypeError" } =>
                  context.resources[tasks[id].item].ids = Some(SiteIds(tasks[id].item))

\* C28 as amended: a record has ids only when recordsIds is true and its
\* resource was parsed to the end; with recordsIds false no record has
\* ids, and with recordsIds true every record whose parser returned and
\* whose links were all resolved has the ids the parser returned, while a
\* record whose parser or new URL() threw has none
C28_IdsOnlyWhenRequestedAndParsed ==
    /\ ~options.recordsIds =>
          /\ \A key \in DOMAIN context.resources : context.resources[key].ids = None
          /\ crawlPc = "done" => \A key \in DOMAIN collection : collection[key].ids = None
    /\ options.recordsIds =>
          /\ \A id \in 1..Len(tasks) :
                /\ tasks[id].pr = "ok" =>
                      context.resources[tasks[id].item].ids = Some(SiteIds(tasks[id].item))
                /\ tasks[id].pr \in { "Error", "TypeError" } =>
                      context.resources[tasks[id].item].ids = None
          /\ \A key \in DOMAIN context.resources :
                context.resources[key].ids # None => \E id \in TasksOf(key) : tasks[id].pr = "ok"

\* C28 witness: recordsIds is true, the crawl returned, index and other
\* have their ids and style, which was not parsed, has none
C28_Witness ==
    /\ crawlPc = "done"
    /\ options.recordsIds
    /\ { Href(IndexURL), Href(OtherURL), Href(StyleURL) } \subseteq DOMAIN collection
    /\ collection[Href(IndexURL)].ids = Some({ << "t" >> })
    /\ collection[Href(OtherURL)].ids = Some({ << "a" >> })
    /\ collection[Href(StyleURL)].contentType # None
    /\ collection[Href(StyleURL)].ids = None

\* the URLs getResourceIdentityFromURL has been applied to: the entry
\* points and the links of the parsed resources
Canonicalized ==
    { urls[i] : i \in 1..Len(urls) }
      \cup UNION { { context.resources[key].links[1][j].canonicalURL :
                       j \in 1..Len(context.resources[key].links[1]) } :
                   key \in { k \in DOMAIN context.resources : context.resources[k].links # None } }

\* C29: getResourceIdentityFromURL is idempotent and removes the fragment
\* and nothing else: its result is the URL without fragment, protocol and
\* body unchanged
C29_CanonicalizeRemovesFragment ==
    \A x \in Canonicalized :
        /\ getResourceIdentityFromURL(getResourceIdentityFromURL(x)) = getResourceIdentityFromURL(x)
        /\ getResourceIdentityFromURL(x) = WithoutFragment(x)
        /\ Href(getResourceIdentityFromURL(x)) = << x.protocol >> \o x.body

\* C29, the part that holds: getResourceIdentityFromURL is idempotent,
\* leaves protocol and body unchanged, and removes a fragment that is not
\* empty
C29_HoldsForNonEmptyFragments ==
    \A x \in Canonicalized :
        /\ getResourceIdentityFromURL(getResourceIdentityFromURL(x)) = getResourceIdentityFromURL(x)
        /\ getResourceIdentityFromURL(x).protocol = x.protocol
        /\ getResourceIdentityFromURL(x).body = x.body
        /\ Hash(x) # << >> => getResourceIdentityFromURL(x) = WithoutFragment(x)
        /\ Hash(getResourceIdentityFromURL(x)) = << >>

\* the keys whose text readTextAsync has resolved
ReadKeys == { tasks[id].item : id \in { i \in 1..Len(tasks) : tasks[i].rt = "ok" } }

PendingAfter == taskQueue.queued \o SubSeq(enq', Len(enq) + 1, Len(enq'))

\* C31: pending items are started in the order they were enqueued, for
\* every maxConcurrency and whether enqueue() or drain() starts them: the
\* handler invocations a step starts are, in order, for the oldest
\* pending items, and the items it leaves queued are the rest
C31_StartedInEnqueueOrder ==
    [][/\ Len(tasks') >= Len(tasks)
       /\ \A k \in 1..Len(tasks) : tasks'[k].item = tasks[k].item
       /\ Len(tasks') - Len(tasks) <= Len(PendingAfter)
       /\ \A k \in 1..(Len(tasks') - Len(tasks)) : tasks'[Len(tasks) + k].item = PendingAfter[k]
       /\ taskQueue'.queued = SubSeq(PendingAfter, Len(tasks') - Len(tasks) + 1, Len(PendingAfter))]_vars

\* C31 witness: three items, not all the same, were enqueued before
\* drain() was called on a queue of one slot: enqueue() started the first
\* and drain() the two others
C31_Witness ==
    /\ taskQueue.handler = "generic"
    /\ taskQueue.maxConcurrency = 1
    /\ enqAtDrain = 3
    /\ Len(tasks) = 3
    /\ enq[2] # enq[3]

\* C32: while drain() is suspended the completion of any in-flight
\* handler resumes it, so a pending item never waits for a free slot: the
\* program is never in a state where drain() is suspended, an item is
\* queued, a slot is free, and every promise drain() waits for belongs to
\* a handler that is still running
C32_FreeSlotIsUsed ==
    ~(/\ ~uncaught
      /\ drainPc = "awaiting"
      /\ taskQueue.queued # << >>
      /\ Len(taskQueue.running) < taskQueue.maxConcurrency
      /\ \A id \in raceSet : tasks[id].p = "pending")

\* C32, the part that holds: the promises drain() waits for are those of
\* `running` when it suspended, and the completion of one of them lets
\* it resume
C32_RacedCompletionResumes ==
    drainPc = "awaiting" =>
        /\ raceSet # { }
        /\ (\E id \in raceSet : tasks[id].fin # "pending") => ENABLED DrainResume \/ uncaught

\* the handler invocation for `key` took the step: it was not at its end
\* and it has moved
StepOf(key) ==
    \E id \in 1..Len(tasks) :
        /\ tasks[id].item = key
        /\ tasks[id].pc # "end"
        /\ tasks'[id] # tasks[id]

\* C33: a record is created with contentType, links and ids unset and is
\* never deleted; its url, internal and depth never change, and its
\* contentType, links and ids are written only by the handler invocation
\* for its own key
C33_RecordWrittenByOwnUnitOnly ==
    [][/\ \A key \in DOMAIN context.resources :
             /\ key \in DOMAIN context'.resources
             /\ context'.resources[key].url = context.resources[key].url
             /\ context'.resources[key].internal = context.resources[key].internal
             /\ context'.resources[key].depth = context.resources[key].depth
             /\ context'.resources[key] # context.resources[key] => StepOf(key)
       /\ \A key \in DOMAIN context'.resources \ DOMAIN context.resources :
             /\ context'.resources[key].contentType = None
             /\ context'.resources[key].links = None
             /\ context'.resources[key].ids = None]_vars

\* C33 witness: index and other have been parsed, each with a link to the
\* other, and the crawl has returned with ids recorded
C33_Witness ==
    /\ crawlPc = "done"
    /\ context.recordIds
    /\ Href(IndexURL) \in DOMAIN context.resources
    /\ Href(OtherURL) \in DOMAIN context.resources
    /\ context.resources[Href(IndexURL)].links # None
    /\ context.resources[Href(IndexURL)].ids # None
    /\ context.resources[Href(OtherURL)].links # None
    /\ \E i \in 1..Len(context.resources[Href(OtherURL)].links[1]) :
          Href(context.resources[Href(OtherURL)].links[1][i].canonicalURL) = Href(IndexURL)

\* C34: every work item that is queued or has been handed to
\* processWorkItemAsync names a key of context.resources, and no
\* invocation has failed its assertion that the record exists (an
\* invocation that fails it ends, rejected, before any access call)
C34_WorkItemsHaveRecords ==
    /\ \A i \in 1..Len(taskQueue.queued) : taskQueue.queued[i] \in DOMAIN context.resources
    /\ \A id \in 1..Len(tasks) :
          /\ tasks[id].item \in DOMAIN context.resources
          /\ tasks[id].ct # "none"

\* C34 witness: a crawl with an item queued, an invocation in flight and
\* an invocation that has ended
C34_Witness ==
    /\ taskQueue.handler = "processWorkItemAsync"
    /\ taskQueue.queued # << >>
    /\ \E id \in 1..Len(tasks) : tasks[id].pc = "readTextAsync"
    /\ \E id \in 1..Len(tasks) : tasks[id].pc = "end"

\* C35: the parser is looked up by the content type cut at its first
\* ";": a resource is read exactly when its content type lookup succeeded,
\* the part before the ";" has a registered parser, and policy and depth
\* allow parsing; and the record holds the whole string the lookup
\* resolved to, parameters included, unless a failed read cleared it
C35_ParserByShortContentType ==
    \A id \in 1..Len(tasks) :
        LET key == tasks[id].item
            resource == context.resources[key]
        IN tasks[id].ct = "ok" =>
             /\ tasks[id].rt # "none" <=>
                   /\ SubSeq(SiteContentType(key), 1, 1) \in contentTypeParsers
                   /\ (resource.internal \/ context.followExternalLinks)
                   /\ resource.depth < context.maxDepth
             /\ tasks[id].rt \notin { "NotFound", "PermissionDenied" } =>
                   resource.contentType = Some(SiteContentType(key))

\* C35 witness: other, whose content type is "text/html; charset=utf-8",
\* has been parsed and its record holds that string
C35_Witness ==
    /\ Href(OtherURL) \in DOMAIN context.resources
    /\ context.resources[Href(OtherURL)].contentType = Some(htmlTypeCharset)
    /\ context.resources[Href(OtherURL)].links # None
    /\ \E id \in 1..Len(tasks) : tasks[id].item = Href(OtherURL) /\ tasks[id].pr = "ok"

\* C36: a record is internal exactly when its key starts with the base
\* string, compared as a plain string with no regard for path segments,
\* and the classification made when the record is created never changes
C36_InternalIffLiteralPrefix ==
    /\ [](\A key \in DOMAIN context.resources :
            context.resources[key].internal
              <=> /\ Len(context.base) <= Len(key)
                  /\ \A i \in 1..Len(context.base) : key[i] = context.base[i])
    /\ [][\A key \in DOMAIN context.resources :
            context'.resources[key].internal = context.resources[key].internal]_vars

\* C36 witness: with base file:/s/i the stylesheet file:/s/ic, which is
\* not below the base's path, is internal, and other, file:/s/o, is not
C36_Witness ==
    /\ crawlPc = "done"
    /\ context.base = Href(IndexURL)
    /\ { Href(StyleURL), Href(OtherURL) } \subseteq DOMAIN context.resources
    /\ context.resources[Href(StyleURL)].internal
    /\ ~context.resources[Href(OtherURL)].internal
    /\ context.resources[Href(StyleURL)].contentType # None

\* the keys with a record that the recorded links of `key` lead to
LinkTargets(key) ==
    IF context.resources[key].links = None THEN { }
    ELSE { Href(getResourceIdentityFromURL(context.resources[key].links[1][i].canonicalURL)) :
             i \in 1..Len(context.resources[key].links[1]) } \cap DOMAIN context.resources

\* the entry points that have a record
EntryKeys ==
    { Href(getResourceIdentityFromURL(urls[i])) : i \in 1..Len(urls) } \cap DOMAIN context.resources

\* the number of links on a shortest path to `key` from the keys of
\* `frontier`, which are d links away from the entry points, over the
\* recorded links (-1: there is no path)
RECURSIVE Hops(_, _, _, _)
Hops(seen, frontier, d, key) ==
    IF key \in frontier THEN d
    ELSE IF frontier = { } THEN -1
    ELSE Hops(seen \cup frontier,
              UNION { LinkTargets(k) : k \in frontier } \ (seen \cup frontier),
              d + 1, key)

\* C37: with maxConcurrency 1 the resources are processed breadth first:
\* the depths of the handler invocations, in the order they were started,
\* never decrease, and the depth of every record is the number of links
\* on a shortest path to it from an entry point over the recorded links
C37_DepthIsShortestDistance ==
    (taskQueue.handler = "processWorkItemAsync" /\ taskQueue.maxConcurrency = 1) =>
        /\ \A i, j \in 1..Len(tasks) :
              i < j => context.resources[tasks[i].item].depth <= context.resources[tasks[j].item].depth
        /\ \A key \in DOMAIN context.resources :
              context.resources[key].depth = Hops({ }, EntryKeys, 0, key)

\* C37 witness: a crawl of index and other with one slot has returned;
\* the second external page, one link from other and two from index, has
\* depth 1, and the page it links to has depth 2
C37_Witness ==
    /\ crawlPc = "done"
    /\ taskQueue.maxConcurrency = 1
    /\ urls = << WithFrag(IndexURL, << "t" >>), OtherURL, IndexURL >>
    /\ { Href(ExtURL), Href(Ext2URL), Href(WithFrag(ExtURL, << >>)) } \subseteq DOMAIN context.resources
    /\ context.resources[Href(ExtURL)].links # None
    /\ context.resources[Href(Ext2URL)].depth = 1
    /\ context.resources[Href(WithFrag(ExtURL, << >>))].depth = 2

\* C38: in one crawl getContentTypeAsync is called at most once for a
\* key and readTextAsync at most once, and readTextAsync is called for a
\* key only when getContentTypeAsync has resolved for it to a content
\* type that has a registered parser
C38_AccessCallsOncePerKey ==
    /\ \A key \in DOMAIN context.resources :
          /\ Cardinality({ id \in 1..Len(tasks) : tasks[id].item = key /\ tasks[id].ct # "none" }) <= 1
          /\ Cardinality({ id \in 1..Len(tasks) : tasks[id].item = key /\ tasks[id].rt # "none" }) <= 1
    /\ \A id \in 1..Len(tasks) :
          tasks[id].rt # "none" =>
              /\ tasks[id].ct = "ok"
              /\ contentTypeShort(SiteContentType(tasks[id].item)) \in contentTypeParsers

\* C38 witness: the crawl has returned; other, which index links three
\* times, was read once, the stylesheet's content type was looked up and
\* it was not read, and a content type lookup failed
C38_Witness ==
    /\ crawlPc = "done"
    /\ \E id \in 1..Len(tasks) : tasks[id].item = Href(OtherURL) /\ tasks[id].rt = "ok"
    /\ \E id \in 1..Len(tasks) :
          tasks[id].item = Href(StyleURL) /\ tasks[id].ct = "ok" /\ tasks[id].rt = "none"
    /\ \E id \in 1..Len(tasks) : tasks[id].ct = "NotFound" /\ tasks[id].rt = "none"

\* the position of the first reference new URL() rejects
FirstBad(hrefs) ==
    CHOOSE k \in 1..Len(hrefs) :
        NewURLThrows(hrefs[k]) /\ \A j \in 1..(k - 1) : ~NewURLThrows(hrefs[j])

\* C39: when new URL() throws on the k-th reference of a parsed resource,
\* the record keeps its content type and the links of the references
\* before the k-th, and gets no ids; the handler returns normally; the
\* targets of those links that are to be checked have a record and, when
\* the crawl returns, have been processed; and parseErrors has one entry
\* for each resource whose processing failed
C39_LinksBeforeErrorAreKept ==
    /\ \A id \in 1..Len(tasks) :
          tasks[id].pr = "TypeError" =>
              LET key == tasks[id].item
                  resource == context.resources[key]
                  k == FirstBad(SiteHrefs(key))
              IN /\ resource.contentType = Some(SiteContentType(key))
                 /\ resource.links = Some(AllowedLinks(SubSeq(SiteHrefs(key), 1, k - 1), resource.url, 1))
                 /\ resource.ids = None
                 /\ tasks[id].p = "fulfilled"
                 /\ key \in context.parseErrors
                 /\ \A t \in { Href(getResourceIdentityFromURL(resource.links[1][i].canonicalURL)) :
                                  i \in 1..Len(resource.links[1]) } :
                       (StartsWith(t, context.base) \/ context.checkExternalLinks) =>
                           /\ t \in DOMAIN context.resources
                           /\ crawlPc = "done" => \E u \in TasksOf(t) : tasks[u].pc = "end" /\ tasks[u].ct # "none"
    /\ Cardinality(context.parseErrors)
          = Cardinality({ id \in 1..Len(tasks) : tasks[id].pr \in { "Error", "TypeError" } })

\* C39 witness: the crawl has returned; new URL() threw on the second
\* reference of ext2, whose record has the one link before it, x#, and
\* the content type of x# has been looked up
C39_Witness ==
    /\ crawlPc = "done"
    /\ \E id \in 1..Len(tasks) : tasks[id].item = Href(Ext2URL) /\ tasks[id].pr = "TypeError"
    /\ Len(context.resources[Href(Ext2URL)].links[1]) = 1
    /\ context.recordIds
    /\ Href(WithFrag(ExtURL, << >>)) \in DOMAIN context.resources
    /\ context.resources[Href(WithFrag(ExtURL, << >>))].contentType # None
    /\ context.parseErrors = { Href(Ext2URL) }

\* the access calls made for `key` that failed
FailedAccess(key) ==
    { id \in TasksOf(key) : \/ tasks[id].ct \in { "NotFound", "PermissionDenied" }
                            \/ tasks[id].rt \in { "NotFound", "PermissionDenied" } }

\* C40: with checkFragments off a link is reported only if the content
\* type lookup or the read of its target failed: a target whose access
\* calls all succeeded is not reported, whatever its content type, the
\* empty string included
C40_BrokenOnlyIfAccessFailed ==
    (brokenLinks # None /\ ~options.recordsIds) =>
        \A source \in Sources :
            \A j \in 1..Len(collection[source].links[1]) :
                LET link == collection[source].links[1][j]
                IN Reported(source, link)
                     => FailedAccess(Href(getResourceIdentityFromURL(link.canonicalURL))) # { }

\* C40, the part that holds: a link is reported only if an access call
\* for its target failed or the content type lookup resolved to the
\* empty string
C40_BrokenOnlyIfFailedOrEmpty ==
    (brokenLinks # None /\ ~options.recordsIds) =>
        \A source \in Sources :
            \A j \in 1..Len(collection[source].links[1]) :
                LET link == collection[source].links[1][j]
                    key == Href(getResourceIdentityFromURL(link.canonicalURL))
                IN Reported(source, link)
                     => \/ FailedAccess(key) # { }
                        \/ \E id \in TasksOf(key) : tasks[id].ct = "NoHeader"

====
